---------------------------- MODULE Spec2Model ----------------------------
(***************************************************************************)
(* A model of config-formatter: the docker-compose and traefik formatters  *)
(* (tree walk, comment-aware stable sort, value normalization, spacing     *)
(* injection) and the Format driver around them.                           *)
(*                                                                         *)
(* Go strings are sequences of one-character strings, so that splitting,   *)
(* prefix tests and byte-wise comparison are computed as the code computes *)
(* them.  A yaml.Node is a record with the fields of the Go struct that    *)
(* the program reads or writes.                                            *)
(***************************************************************************)
EXTENDS Integers, Sequences, FiniteSets, TLC

VARIABLES
  profile,     \* the formatter in use: "docker-compose" or "traefik"; "" until main selects one
  pc,          \* position of the operation under way
  node,        \* the node handed to the operation under test
  parentKey,   \* the enclosing key name handed to the value normalizer
  isTopLevel,  \* the isTopLevel / isRoot argument
  result,      \* the node after the operation
  indent,      \* the indent argument of Format (flag -indent)
  input,       \* the bytes of the document handed to Format
  doc,         \* the tree of the first Format call, after the walk
  out1,        \* the bytes returned by the first Format call
  out2,        \* the bytes returned by Format applied to out1
  flags,       \* the command line of main: input, output, w, check, type
  fs,          \* the files main can read or write, by name
  err,         \* the error main holds, nil (None) if none
  exitCode     \* the exit status of the process, once it has exited

vars == <<profile, pc, node, parentKey, isTopLevel, result, indent, input, doc, out1, out2,
          flags, fs, err, exitCode>>

\* body at x, with x evaluated once: a bound variable holds a value, whereas a
\* definition of a LET is evaluated anew at each of its uses
With(x, body(_)) == CHOOSE y \in {body(v) : v \in {x}} : TRUE

-----------------------------------------------------------------------------
(* Bounds of the model *)

\* largest number of key/value pairs of an enumerated mapping
MaxPairs == 3

\* the default of the -indent flag
defaultIndent == 2

-----------------------------------------------------------------------------
(* Strings *)

\* byte value of a character; Go compares strings byte-wise
Ord ==
  ("\t" :> 9) @@ ("\n" :> 10) @@ (" " :> 32) @@ ("!" :> 33) @@ ("\"" :> 34) @@ ("#" :> 35) @@
  ("$" :> 36) @@ ("%" :> 37) @@ ("&" :> 38) @@ ("'" :> 39) @@ ("(" :> 40) @@ (")" :> 41) @@
  ("*" :> 42) @@ ("+" :> 43) @@ ("," :> 44) @@ ("-" :> 45) @@ ("." :> 46) @@ ("/" :> 47) @@
  ("0" :> 48) @@ ("1" :> 49) @@ ("2" :> 50) @@ ("3" :> 51) @@ ("4" :> 52) @@ ("5" :> 53) @@
  ("6" :> 54) @@ ("7" :> 55) @@ ("8" :> 56) @@ ("9" :> 57) @@ (":" :> 58) @@ (";" :> 59) @@
  ("<" :> 60) @@ ("=" :> 61) @@ (">" :> 62) @@ ("?" :> 63) @@ ("@" :> 64) @@ ("A" :> 65) @@
  ("B" :> 66) @@ ("C" :> 67) @@ ("D" :> 68) @@ ("E" :> 69) @@ ("F" :> 70) @@ ("G" :> 71) @@
  ("H" :> 72) @@ ("I" :> 73) @@ ("J" :> 74) @@ ("K" :> 75) @@ ("L" :> 76) @@ ("M" :> 77) @@
  ("N" :> 78) @@ ("O" :> 79) @@ ("P" :> 80) @@ ("Q" :> 81) @@ ("R" :> 82) @@ ("S" :> 83) @@
  ("T" :> 84) @@ ("U" :> 85) @@ ("V" :> 86) @@ ("W" :> 87) @@ ("X" :> 88) @@ ("Y" :> 89) @@
  ("Z" :> 90) @@ ("[" :> 91) @@ ("\\" :> 92) @@ ("]" :> 93) @@ ("^" :> 94) @@ ("_" :> 95) @@
  ("a" :> 97) @@ ("b" :> 98) @@ ("c" :> 99) @@ ("d" :> 100) @@ ("e" :> 101) @@ ("f" :> 102) @@
  ("g" :> 103) @@ ("h" :> 104) @@ ("i" :> 105) @@ ("j" :> 106) @@ ("k" :> 107) @@ ("l" :> 108) @@
  ("m" :> 109) @@ ("n" :> 110) @@ ("o" :> 111) @@ ("p" :> 112) @@ ("q" :> 113) @@ ("r" :> 114) @@
  ("s" :> 115) @@ ("t" :> 116) @@ ("u" :> 117) @@ ("v" :> 118) @@ ("w" :> 119) @@ ("x" :> 120) @@
  ("y" :> 121) @@ ("z" :> 122) @@ ("{" :> 123) @@ ("|" :> 124) @@ ("}" :> 125) @@ ("~" :> 126)

RECURSIVE StrLess(_, _)
\* a < b on Go strings
StrLess(a, b) ==
  IF b = <<>> THEN FALSE
  ELSE IF a = <<>> THEN TRUE
  ELSE IF a[1] = b[1] THEN StrLess(Tail(a), Tail(b))
  ELSE Ord[a[1]] < Ord[b[1]]

-----------------------------------------------------------------------------
(* yaml.Node *)

DocumentNode == "DocumentNode"
SequenceNode == "SequenceNode"
MappingNode == "MappingNode"
ScalarNode == "ScalarNode"
AliasNode == "AliasNode"

\* yaml.Style values the program reads or writes (0 is the zero Style)
DefaultStyle == "0"
DoubleQuotedStyle == "DoubleQuotedStyle"
SingleQuotedStyle == "SingleQuotedStyle"

strTag == <<"!","!","s","t","r">>
intTag == <<"!","!","i","n","t">>
mapTag == <<"!","!","m","a","p">>
seqTag == <<"!","!","s","e","q">>

\* a node as the parser builds it: no comments attached
Node(kind, tag, style, value, line, content) ==
  [Kind |-> kind, Tag |-> tag, Style |-> style, Value |-> value,
   HeadComment |-> <<>>, LineComment |-> <<>>, FootComment |-> <<>>,
   Line |-> line, Content |-> content]

Scalar(value, line) == Node(ScalarNode, strTag, DefaultStyle, value, line, <<>>)
Mapping(content, line) == Node(MappingNode, mapTag, DefaultStyle, <<>>, line, content)
Sequence(content, line) == Node(SequenceNode, seqTag, DefaultStyle, <<>>, line, content)
Document(content) == Node(DocumentNode, <<>>, DefaultStyle, <<>>, 1, content)

\* a nil *yaml.Node, and a variable no operation has written yet
None == <<>>

-----------------------------------------------------------------------------
(* Ordering tables of the docker-compose formatter *)

topLevelOrder ==
  (<<"v","e","r","s","i","o","n">> :> 1) @@
  (<<"n","a","m","e">> :> 2) @@
  (<<"i","n","c","l","u","d","e">> :> 3) @@
  (<<"n","e","t","w","o","r","k","s">> :> 10) @@
  (<<"v","o","l","u","m","e","s">> :> 20) @@
  (<<"c","o","n","f","i","g","s">> :> 30) @@
  (<<"s","e","c","r","e","t","s">> :> 40) @@
  (<<"m","o","d","e","l","s">> :> 50) @@
  (<<"s","e","r","v","i","c","e","s">> :> 1000)

serviceLevelOrder ==
  (<<"i","m","a","g","e">> :> 1) @@
  (<<"b","u","i","l","d">> :> 2) @@
  (<<"c","o","n","t","a","i","n","e","r","_","n","a","m","e">> :> 3) @@
  (<<"h","o","s","t","n","a","m","e">> :> 4) @@
  (<<"d","o","m","a","i","n","n","a","m","e">> :> 5) @@
  (<<"p","l","a","t","f","o","r","m">> :> 6) @@
  (<<"c","o","m","m","a","n","d">> :> 10) @@
  (<<"e","n","t","r","y","p","o","i","n","t">> :> 11) @@
  (<<"i","n","i","t">> :> 12) @@
  (<<"e","n","v","i","r","o","n","m","e","n","t">> :> 20) @@
  (<<"e","n","v","_","f","i","l","e">> :> 21) @@
  (<<"p","o","r","t","s">> :> 30) @@
  (<<"e","x","p","o","s","e">> :> 31) @@
  (<<"v","o","l","u","m","e","s">> :> 40) @@
  (<<"v","o","l","u","m","e","s","_","f","r","o","m">> :> 41) @@
  (<<"d","e","v","i","c","e","s">> :> 42) @@
  (<<"t","m","p","f","s">> :> 43) @@
  (<<"n","e","t","w","o","r","k","s">> :> 50) @@
  (<<"n","e","t","w","o","r","k","_","m","o","d","e">> :> 51) @@
  (<<"l","i","n","k","s">> :> 52) @@
  (<<"e","x","t","e","r","n","a","l","_","l","i","n","k","s">> :> 53) @@
  (<<"m","a","c","_","a","d","d","r","e","s","s">> :> 54) @@
  (<<"d","e","p","e","n","d","s","_","o","n">> :> 60) @@
  (<<"s","e","c","r","e","t","s">> :> 65) @@
  (<<"c","o","n","f","i","g","s">> :> 66) @@
  (<<"r","e","s","t","a","r","t">> :> 70) @@
  (<<"p","u","l","l","_","p","o","l","i","c","y">> :> 71) @@
  (<<"p","u","l","l","_","r","e","f","r","e","s","h","_","a","f","t","e","r">> :> 72) @@
  (<<"d","e","p","l","o","y">> :> 80) @@
  (<<"d","e","v","e","l","o","p">> :> 81) @@
  (<<"h","e","a","l","t","h","c","h","e","c","k">> :> 90) @@
  (<<"l","a","b","e","l","s">> :> 100) @@
  (<<"l","a","b","e","l","_","f","i","l","e">> :> 101) @@
  (<<"a","n","n","o","t","a","t","i","o","n","s">> :> 102) @@
  (<<"a","t","t","a","c","h">> :> 103) @@
  (<<"l","o","g","g","i","n","g">> :> 110) @@
  (<<"e","x","t","r","a","_","h","o","s","t","s">> :> 120) @@
  (<<"d","n","s">> :> 121) @@
  (<<"d","n","s","_","o","p","t">> :> 122) @@
  (<<"d","n","s","_","s","e","a","r","c","h">> :> 123) @@
  (<<"s","e","c","u","r","i","t","y","_","o","p","t">> :> 130) @@
  (<<"c","a","p","_","a","d","d">> :> 131) @@
  (<<"c","a","p","_","d","r","o","p">> :> 132) @@
  (<<"p","r","i","v","i","l","e","g","e","d">> :> 133) @@
  (<<"u","s","e","r","n","s","_","m","o","d","e">> :> 134) @@
  (<<"c","g","r","o","u","p">> :> 135) @@
  (<<"c","g","r","o","u","p","_","p","a","r","e","n","t">> :> 136) @@
  (<<"i","p","c">> :> 137) @@
  (<<"p","i","d">> :> 138) @@
  (<<"u","t","s">> :> 139) @@
  (<<"i","s","o","l","a","t","i","o","n">> :> 140) @@
  (<<"r","e","a","d","_","o","n","l","y">> :> 141) @@
  (<<"u","s","e","r">> :> 150) @@
  (<<"w","o","r","k","i","n","g","_","d","i","r">> :> 151) @@
  (<<"g","r","o","u","p","_","a","d","d">> :> 152) @@
  (<<"s","t","d","i","n","_","o","p","e","n">> :> 160) @@
  (<<"t","t","y">> :> 161) @@
  (<<"r","u","n","t","i","m","e">> :> 170) @@
  (<<"s","c","a","l","e">> :> 171) @@
  (<<"e","x","t","e","n","d","s">> :> 172) @@
  (<<"p","r","o","f","i","l","e","s">> :> 173) @@
  (<<"c","p","u","s">> :> 180) @@
  (<<"c","p","u","_","c","o","u","n","t">> :> 181) @@
  (<<"c","p","u","_","p","e","r","c","e","n","t">> :> 182) @@
  (<<"c","p","u","_","s","h","a","r","e","s">> :> 183) @@
  (<<"c","p","u","_","p","e","r","i","o","d">> :> 184) @@
  (<<"c","p","u","_","q","u","o","t","a">> :> 185) @@
  (<<"c","p","u","_","r","t","_","r","u","n","t","i","m","e">> :> 186) @@
  (<<"c","p","u","_","r","t","_","p","e","r","i","o","d">> :> 187) @@
  (<<"c","p","u","s","e","t">> :> 188) @@
  (<<"m","e","m","_","l","i","m","i","t">> :> 190) @@
  (<<"m","e","m","_","r","e","s","e","r","v","a","t","i","o","n">> :> 191) @@
  (<<"m","e","m","_","s","w","a","p","p","i","n","e","s","s">> :> 192) @@
  (<<"m","e","m","s","w","a","p","_","l","i","m","i","t">> :> 193) @@
  (<<"p","i","d","s","_","l","i","m","i","t">> :> 194) @@
  (<<"b","l","k","i","o","_","c","o","n","f","i","g">> :> 195) @@
  (<<"o","o","m","_","k","i","l","l","_","d","i","s","a","b","l","e">> :> 196) @@
  (<<"o","o","m","_","s","c","o","r","e","_","a","d","j">> :> 197) @@
  (<<"s","h","m","_","s","i","z","e">> :> 200) @@
  (<<"s","t","o","p","_","s","i","g","n","a","l">> :> 210) @@
  (<<"s","t","o","p","_","g","r","a","c","e","_","p","e","r","i","o","d">> :> 211) @@
  (<<"u","l","i","m","i","t","s">> :> 220) @@
  (<<"s","y","s","c","t","l","s">> :> 221) @@
  (<<"s","t","o","r","a","g","e","_","o","p","t">> :> 222) @@
  (<<"d","e","v","i","c","e","_","c","g","r","o","u","p","_","r","u","l","e","s">> :> 223) @@
  (<<"c","r","e","d","e","n","t","i","a","l","_","s","p","e","c">> :> 224) @@
  (<<"g","p","u","s">> :> 225) @@
  (<<"m","o","d","e","l","s">> :> 230) @@
  (<<"p","r","o","v","i","d","e","r">> :> 231) @@
  (<<"u","s","e","_","a","p","i","_","s","o","c","k","e","t">> :> 232) @@
  (<<"p","o","s","t","_","s","t","a","r","t">> :> 240) @@
  (<<"p","r","e","_","s","t","o","p">> :> 241)

buildOrder ==
  (<<"c","o","n","t","e","x","t">> :> 1) @@
  (<<"d","o","c","k","e","r","f","i","l","e">> :> 2) @@
  (<<"a","r","g","s">> :> 3) @@
  (<<"t","a","r","g","e","t">> :> 4) @@
  (<<"c","a","c","h","e","_","f","r","o","m">> :> 5) @@
  (<<"l","a","b","e","l","s">> :> 6)

deployOrder ==
  (<<"m","o","d","e">> :> 1) @@
  (<<"r","e","p","l","i","c","a","s">> :> 2) @@
  (<<"p","l","a","c","e","m","e","n","t">> :> 3) @@
  (<<"u","p","d","a","t","e","_","c","o","n","f","i","g">> :> 4) @@
  (<<"r","o","l","l","b","a","c","k","_","c","o","n","f","i","g">> :> 5) @@
  (<<"r","e","s","o","u","r","c","e","s">> :> 6) @@
  (<<"r","e","s","t","a","r","t","_","p","o","l","i","c","y">> :> 7) @@
  (<<"l","a","b","e","l","s">> :> 8) @@
  (<<"e","n","d","p","o","i","n","t","_","m","o","d","e">> :> 9)

networkOrder ==
  (<<"d","r","i","v","e","r">> :> 1) @@
  (<<"d","r","i","v","e","r","_","o","p","t","s">> :> 2) @@
  (<<"e","n","a","b","l","e","_","i","p","v","4">> :> 3) @@
  (<<"e","n","a","b","l","e","_","i","p","v","6">> :> 4) @@
  (<<"i","p","a","m">> :> 5) @@
  (<<"e","x","t","e","r","n","a","l">> :> 10) @@
  (<<"i","n","t","e","r","n","a","l">> :> 11) @@
  (<<"a","t","t","a","c","h","a","b","l","e">> :> 12) @@
  (<<"n","a","m","e">> :> 20) @@
  (<<"l","a","b","e","l","s">> :> 30)

volumeOrder ==
  (<<"d","r","i","v","e","r">> :> 1) @@
  (<<"d","r","i","v","e","r","_","o","p","t","s">> :> 2) @@
  (<<"e","x","t","e","r","n","a","l">> :> 10) @@
  (<<"n","a","m","e">> :> 20) @@
  (<<"l","a","b","e","l","s">> :> 30)

secretsOrder ==
  (<<"f","i","l","e">> :> 1) @@
  (<<"e","n","v","i","r","o","n","m","e","n","t">> :> 2) @@
  (<<"e","x","t","e","r","n","a","l">> :> 10) @@
  (<<"n","a","m","e">> :> 20)

configsOrder ==
  (<<"f","i","l","e">> :> 1) @@
  (<<"e","n","v","i","r","o","n","m","e","n","t">> :> 2) @@
  (<<"c","o","n","t","e","n","t">> :> 3) @@
  (<<"e","x","t","e","r","n","a","l">> :> 10) @@
  (<<"n","a","m","e">> :> 20)

\* rank of a key that no table holds
defaultOrder == 1000

\* getKeyOrder with the top-level table consulted in every mapping
getKeyOrder_topLevelEverywhere(key, top) ==
  IF key \in DOMAIN topLevelOrder THEN topLevelOrder[key]
  ELSE IF key \in DOMAIN serviceLevelOrder THEN serviceLevelOrder[key]
  ELSE defaultOrder

\* getKeyOrder of the docker-compose formatter
getKeyOrder(key, top) ==
  IF top /\ key \in DOMAIN topLevelOrder THEN topLevelOrder[key]
  ELSE IF ~top /\ key \in DOMAIN serviceLevelOrder THEN serviceLevelOrder[key]
  ELSE IF key \in DOMAIN buildOrder THEN buildOrder[key]
  ELSE IF key \in DOMAIN deployOrder THEN deployOrder[key]
  ELSE IF key \in DOMAIN networkOrder THEN networkOrder[key]
  ELSE IF key \in DOMAIN volumeOrder THEN volumeOrder[key]
  ELSE IF key \in DOMAIN secretsOrder THEN secretsOrder[key]
  ELSE IF key \in DOMAIN configsOrder THEN configsOrder[key]
  ELSE defaultOrder

-----------------------------------------------------------------------------
(* Ordering tables of the traefik formatter *)

traefik_topLevelOrder ==
  (<<"g","l","o","b","a","l">> :> 1) @@
  (<<"l","o","g">> :> 2) @@
  (<<"a","c","c","e","s","s","L","o","g">> :> 3) @@
  (<<"a","p","i">> :> 4) @@
  (<<"p","i","n","g">> :> 5) @@
  (<<"m","e","t","r","i","c","s">> :> 6) @@
  (<<"t","r","a","c","i","n","g">> :> 7) @@
  (<<"h","o","s","t","R","e","s","o","l","v","e","r">> :> 8) @@
  (<<"e","n","t","r","y","P","o","i","n","t","s">> :> 10) @@
  (<<"p","r","o","v","i","d","e","r","s">> :> 11) @@
  (<<"c","e","r","t","i","f","i","c","a","t","e","s","R","e","s","o","l","v","e","r","s">> :> 12) @@
  (<<"h","t","t","p">> :> 100) @@
  (<<"t","c","p">> :> 101) @@
  (<<"u","d","p">> :> 102) @@
  (<<"t","l","s">> :> 103) @@
  (<<"e","x","p","e","r","i","m","e","n","t","a","l">> :> 200) @@
  (<<"p","i","l","o","t">> :> 201)

traefik_httpOrder ==
  (<<"r","o","u","t","e","r","s">> :> 1) @@
  (<<"s","e","r","v","i","c","e","s">> :> 2) @@
  (<<"m","i","d","d","l","e","w","a","r","e","s">> :> 3) @@
  (<<"s","e","r","v","e","r","s","T","r","a","n","s","p","o","r","t","s">> :> 4)

traefik_tcpOrder ==
  (<<"r","o","u","t","e","r","s">> :> 1) @@
  (<<"s","e","r","v","i","c","e","s">> :> 2) @@
  (<<"m","i","d","d","l","e","w","a","r","e","s">> :> 3) @@
  (<<"s","e","r","v","e","r","s","T","r","a","n","s","p","o","r","t","s">> :> 4)

traefik_udpOrder ==
  (<<"r","o","u","t","e","r","s">> :> 1) @@
  (<<"s","e","r","v","i","c","e","s">> :> 2)

traefik_routerOrder ==
  (<<"e","n","t","r","y","P","o","i","n","t","s">> :> 1) @@
  (<<"r","u","l","e">> :> 2) @@
  (<<"r","u","l","e","S","y","n","t","a","x">> :> 3) @@
  (<<"p","r","i","o","r","i","t","y">> :> 4) @@
  (<<"s","e","r","v","i","c","e">> :> 5) @@
  (<<"m","i","d","d","l","e","w","a","r","e","s">> :> 6) @@
  (<<"t","l","s">> :> 7) @@
  (<<"p","a","r","e","n","t","R","e","f","s">> :> 8) @@
  (<<"o","b","s","e","r","v","a","b","i","l","i","t","y">> :> 9)

traefik_serviceOrder ==
  (<<"l","o","a","d","B","a","l","a","n","c","e","r">> :> 1) @@
  (<<"w","e","i","g","h","t","e","d">> :> 2) @@
  (<<"m","i","r","r","o","r","i","n","g">> :> 3) @@
  (<<"f","a","i","l","o","v","e","r">> :> 4) @@
  (<<"h","i","g","h","e","s","t","R","a","n","d","o","m","W","e","i","g","h","t">> :> 5)

traefik_loadBalancerOrder ==
  (<<"s","e","r","v","e","r","s">> :> 1) @@
  (<<"s","t","r","a","t","e","g","y">> :> 2) @@
  (<<"h","e","a","l","t","h","C","h","e","c","k">> :> 3) @@
  (<<"p","a","s","s","i","v","e","H","e","a","l","t","h","C","h","e","c","k">> :> 4) @@
  (<<"s","t","i","c","k","y">> :> 5) @@
  (<<"s","e","r","v","e","r","s","T","r","a","n","s","p","o","r","t">> :> 6) @@
  (<<"p","a","s","s","H","o","s","t","H","e","a","d","e","r">> :> 7) @@
  (<<"r","e","s","p","o","n","s","e","F","o","r","w","a","r","d","i","n","g">> :> 8)

traefik_middlewareOrder ==
  (<<"a","d","d","P","r","e","f","i","x">> :> 1) @@
  (<<"s","t","r","i","p","P","r","e","f","i","x">> :> 2) @@
  (<<"s","t","r","i","p","P","r","e","f","i","x","R","e","g","e","x">> :> 3) @@
  (<<"r","e","p","l","a","c","e","P","a","t","h">> :> 4) @@
  (<<"r","e","p","l","a","c","e","P","a","t","h","R","e","g","e","x">> :> 5) @@
  (<<"c","h","a","i","n">> :> 10) @@
  (<<"i","p","W","h","i","t","e","L","i","s","t">> :> 11) @@
  (<<"i","p","A","l","l","o","w","L","i","s","t">> :> 12) @@
  (<<"h","e","a","d","e","r","s">> :> 20) @@
  (<<"e","r","r","o","r","s">> :> 21) @@
  (<<"r","a","t","e","L","i","m","i","t">> :> 30) @@
  (<<"c","i","r","c","u","i","t","B","r","e","a","k","e","r">> :> 31) @@
  (<<"i","n","F","l","i","g","h","t","R","e","q">> :> 32) @@
  (<<"r","e","d","i","r","e","c","t","R","e","g","e","x">> :> 40) @@
  (<<"r","e","d","i","r","e","c","t","S","c","h","e","m","e">> :> 41) @@
  (<<"b","a","s","i","c","A","u","t","h">> :> 50) @@
  (<<"d","i","g","e","s","t","A","u","t","h">> :> 51) @@
  (<<"f","o","r","w","a","r","d","A","u","t","h">> :> 52) @@
  (<<"b","u","f","f","e","r","i","n","g">> :> 60) @@
  (<<"c","o","m","p","r","e","s","s">> :> 61) @@
  (<<"c","o","n","t","e","n","t","T","y","p","e">> :> 62) @@
  (<<"g","r","p","c","W","e","b">> :> 63) @@
  (<<"p","a","s","s","T","L","S","C","l","i","e","n","t","C","e","r","t">> :> 70) @@
  (<<"r","e","t","r","y">> :> 71) @@
  (<<"p","l","u","g","i","n">> :> 80)

traefik_entryPointOrder ==
  (<<"a","d","d","r","e","s","s">> :> 1) @@
  (<<"a","s","D","e","f","a","u","l","t">> :> 2) @@
  (<<"t","r","a","n","s","p","o","r","t">> :> 3) @@
  (<<"h","t","t","p">> :> 4) @@
  (<<"h","t","t","p","2">> :> 5) @@
  (<<"h","t","t","p","3">> :> 6) @@
  (<<"p","r","o","x","y","P","r","o","t","o","c","o","l">> :> 7) @@
  (<<"f","o","r","w","a","r","d","e","d","H","e","a","d","e","r","s">> :> 8)

traefik_tlsOrder ==
  (<<"c","e","r","t","i","f","i","c","a","t","e","s">> :> 1) @@
  (<<"o","p","t","i","o","n","s">> :> 2) @@
  (<<"s","t","o","r","e","s">> :> 3) @@
  (<<"c","e","r","t","R","e","s","o","l","v","e","r">> :> 4) @@
  (<<"d","o","m","a","i","n","s">> :> 5)

traefik_providerOrder ==
  (<<"p","r","o","v","i","d","e","r","s","T","h","r","o","t","t","l","e","D","u","r","a","t","i","o","n">> :> 1) @@
  (<<"d","o","c","k","e","r">> :> 10) @@
  (<<"f","i","l","e">> :> 11) @@
  (<<"k","u","b","e","r","n","e","t","e","s">> :> 12) @@
  (<<"k","u","b","e","r","n","e","t","e","s","G","a","t","e","w","a","y">> :> 13) @@
  (<<"k","u","b","e","r","n","e","t","e","s","C","R","D">> :> 14) @@
  (<<"c","o","n","s","u","l","C","a","t","a","l","o","g">> :> 15) @@
  (<<"n","o","m","a","d">> :> 16) @@
  (<<"e","c","s">> :> 17) @@
  (<<"m","a","r","a","t","h","o","n">> :> 18) @@
  (<<"r","a","n","c","h","e","r">> :> 19) @@
  (<<"r","e","s","t">> :> 20) @@
  (<<"e","t","c","d">> :> 21) @@
  (<<"c","o","n","s","u","l">> :> 22) @@
  (<<"z","o","o","K","e","e","p","e","r">> :> 23) @@
  (<<"r","e","d","i","s">> :> 24) @@
  (<<"h","t","t","p">> :> 25)

\* rank of a key that no table of the traefik formatter holds
traefik_defaultOrder == 1000

\* getKeyOrder of the traefik formatter
traefik_getKeyOrder(key, top) ==
  IF top /\ key \in DOMAIN traefik_topLevelOrder THEN traefik_topLevelOrder[key]
  ELSE IF key \in DOMAIN traefik_routerOrder THEN traefik_routerOrder[key]
  ELSE IF key \in DOMAIN traefik_serviceOrder THEN traefik_serviceOrder[key]
  ELSE IF key \in DOMAIN traefik_loadBalancerOrder THEN traefik_loadBalancerOrder[key]
  ELSE IF key \in DOMAIN traefik_middlewareOrder THEN traefik_middlewareOrder[key]
  ELSE IF key \in DOMAIN traefik_entryPointOrder THEN traefik_entryPointOrder[key]
  ELSE IF key \in DOMAIN traefik_tlsOrder THEN traefik_tlsOrder[key]
  ELSE IF key \in DOMAIN traefik_providerOrder THEN traefik_providerOrder[key]
  ELSE IF key \in DOMAIN traefik_httpOrder THEN traefik_httpOrder[key]
  ELSE IF key \in DOMAIN traefik_tcpOrder THEN traefik_tcpOrder[key]
  ELSE IF key \in DOMAIN traefik_udpOrder THEN traefik_udpOrder[key]
  ELSE traefik_defaultOrder

-----------------------------------------------------------------------------
(* sort.SliceStable over the pairs of a mapping.  Indices are Go's, from 0. *)

\* a comparator that ignores the order of the tables
less_ignoresOrder(pairs, i, j) ==
  LET p == pairs[i + 1]
      q == pairs[j + 1]
  IN  IF p.hasComment \/ q.hasComment THEN p.originalIdx < q.originalIdx
      ELSE StrLess(p.key.Value, q.key.Value)

\* the comparator both formatters hand to sort.SliceStable
less(pairs, i, j) ==
  LET p == pairs[i + 1]
      q == pairs[j + 1]
  IN  IF p.hasComment \/ q.hasComment THEN p.originalIdx < q.originalIdx
      ELSE IF p.order # q.order THEN p.order < q.order
      ELSE StrLess(p.key.Value, q.key.Value)

swap(data, i, j) ==
  [data EXCEPT ![i + 1] = data[j + 1], ![j + 1] = data[i + 1]]

RECURSIVE insertionInner(_, _, _)
\* for j := i; j > a && less(j, j-1); j-- { swap(j, j-1) }
insertionInner(data, a, j) ==
  IF j > a /\ less(data, j, j - 1)
  THEN insertionInner(swap(data, j, j - 1), a, j - 1)
  ELSE data

RECURSIVE insertionFrom(_, _, _, _)
insertionFrom(data, a, b, i) ==
  IF i < b THEN insertionFrom(insertionInner(data, a, i), a, b, i + 1) ELSE data

insertionSort(data, a, b) == insertionFrom(data, a, b, a + 1)

\* data[a:m] and data[m:b] exchanged, each keeping its order
rotate(data, a, m, b) ==
  [k \in 1..Len(data) |->
     IF k - 1 < a \/ k - 1 >= b THEN data[k]
     ELSE IF k - 1 < a + (b - m) THEN data[k + (m - a)]
     ELSE data[k - (b - m)]]

RECURSIVE searchRight(_, _, _, _)
\* lowest i in [m, b) with !less(i, a), by bisection
searchRight(data, a, i, j) ==
  IF i < j
  THEN LET h == (i + j) \div 2
       IN  IF less(data, h, a) THEN searchRight(data, a, h + 1, j)
           ELSE searchRight(data, a, i, h)
  ELSE i

RECURSIVE searchLeft(_, _, _, _)
\* lowest i in [a, m) with less(m, i), by bisection
searchLeft(data, m, i, j) ==
  IF i < j
  THEN LET h == (i + j) \div 2
       IN  IF ~less(data, m, h) THEN searchLeft(data, m, h + 1, j)
           ELSE searchLeft(data, m, i, h)
  ELSE i

RECURSIVE searchSym(_, _, _, _)
searchSym(data, p, start, r) ==
  IF start < r
  THEN LET c == (start + r) \div 2
       IN  IF ~less(data, p - c, c) THEN searchSym(data, p, c + 1, r)
           ELSE searchSym(data, p, start, c)
  ELSE start

RECURSIVE symMerge(_, _, _, _)
\* merges the sorted data[a:m] and data[m:b]
symMerge(data, a, m, b) ==
  IF m - a = 1
  THEN LET i == searchRight(data, a, m, b)
       IN  IF a < i - 1 THEN rotate(data, a, a + 1, i) ELSE data
  ELSE IF b - m = 1
  THEN LET i == searchLeft(data, m, a, m)
       IN  IF m > i THEN rotate(data, i, m, m + 1) ELSE data
  ELSE LET mid == (a + b) \div 2
           n == mid + m
           start == IF m > mid THEN searchSym(data, n - 1, n - b, mid)
                    ELSE searchSym(data, n - 1, a, m)
           end == n - start
           d1 == IF start < m /\ m < end THEN rotate(data, start, m, end) ELSE data
           d2 == IF a < start /\ start < mid THEN symMerge(d1, a, start, mid) ELSE d1
       IN  IF mid < end /\ end < b THEN symMerge(d2, mid, end, b) ELSE d2

\* size of the blocks sort.SliceStable sorts by insertion before it merges
blockSize == 20

RECURSIVE insertBlocks(_, _, _, _)
insertBlocks(data, a, b, n) ==
  IF b <= n THEN insertBlocks(insertionSort(data, a, b), b, b + blockSize, n)
  ELSE insertionSort(data, a, n)

RECURSIVE mergePass(_, _, _, _, _)
mergePass(data, a, b, bs, n) ==
  IF b <= n THEN mergePass(symMerge(data, a, a + bs, b), b, b + 2 * bs, bs, n)
  ELSE IF a + bs < n THEN symMerge(data, a, a + bs, n)
  ELSE data

RECURSIVE mergeBlocks(_, _, _)
mergeBlocks(data, bs, n) ==
  IF bs < n THEN mergeBlocks(mergePass(data, 0, 2 * bs, bs, n), 2 * bs, n)
  ELSE data

SliceStable(pairs) ==
  LET n == Len(pairs)
  IN  mergeBlocks(insertBlocks(pairs, 0, blockSize, n), blockSize, n)

-----------------------------------------------------------------------------
(* Sorter and spacing injector *)

hasComment(keyNode, valueNode) ==
  \/ keyNode.HeadComment # <<>>
  \/ keyNode.LineComment # <<>>
  \/ keyNode.FootComment # <<>>
  \/ valueNode.HeadComment # <<>>

\* a spacing that puts a newline ahead of a head comment that already starts with one
addServiceSpacing_alwaysPrepends(servicesNode) ==
  IF servicesNode.Kind # MappingNode \/ Len(servicesNode.Content) = 0
  THEN servicesNode
  ELSE [servicesNode EXCEPT !.Content =
          [i \in 1..Len(@) |->
             IF i % 2 = 1 /\ i - 1 > 0
             THEN [@[i] EXCEPT !.HeadComment = <<"\n">> \o @]
             ELSE @[i]]]

\* a spacing of the service entries that skips the second one as well
addServiceSpacing_fromThird(servicesNode) ==
  IF servicesNode.Kind # MappingNode \/ Len(servicesNode.Content) = 0
  THEN servicesNode
  ELSE [servicesNode EXCEPT !.Content =
          [i \in 1..Len(@) |->
             IF i % 2 = 1 /\ i - 1 > 2
             THEN IF @[i].HeadComment # <<>>
                  THEN IF @[i].HeadComment[1] # "\n"
                       THEN [@[i] EXCEPT !.HeadComment = <<"\n">> \o @]
                       ELSE @[i]
                  ELSE [@[i] EXCEPT !.HeadComment = <<"\n">>]
             ELSE @[i]]]

\* addServiceSpacing: a leading newline on the head comment of every key but the first
addServiceSpacing(servicesNode) ==
  IF servicesNode.Kind # MappingNode \/ Len(servicesNode.Content) = 0
  THEN servicesNode
  ELSE [servicesNode EXCEPT !.Content =
          [i \in 1..Len(@) |->
             IF i % 2 = 1 /\ i - 1 > 0
             THEN IF @[i].HeadComment # <<>>
                  THEN IF @[i].HeadComment[1] # "\n"
                       THEN [@[i] EXCEPT !.HeadComment = <<"\n">> \o @]
                       ELSE @[i]
                  ELSE [@[i] EXCEPT !.HeadComment = <<"\n">>]
             ELSE @[i]]]

\* a spacing loop that starts at the first pair
topLevelSpacing_fromFirst(pairs) ==
  [i \in 1..Len(pairs) |->
     IF pairs[i].key.HeadComment = <<>>
     THEN [pairs[i] EXCEPT !.key.HeadComment = <<"\n">>]
     ELSE IF pairs[i].key.HeadComment[1] # "\n"
     THEN [pairs[i] EXCEPT !.key.HeadComment = <<"\n">> \o @]
     ELSE pairs[i]]

\* the spacing loop over the sorted pairs of the top-level mapping
topLevelSpacing(pairs) ==
  [i \in 1..Len(pairs) |->
     IF i - 1 >= 1
     THEN IF pairs[i].key.HeadComment = <<>>
          THEN [pairs[i] EXCEPT !.key.HeadComment = <<"\n">>]
          ELSE IF pairs[i].key.HeadComment[1] # "\n"
          THEN [pairs[i] EXCEPT !.key.HeadComment = <<"\n">> \o @]
          ELSE pairs[i]
     ELSE pairs[i]]

\* a rebuild that loses the binding of a key to its value
rebuildContent_firstValue(pairs) ==
  [k \in 1..(2 * Len(pairs)) |->
     IF k % 2 = 1 THEN pairs[(k + 1) \div 2].key ELSE pairs[1].value]

\* newContent: key and value of every pair, in the order of pairs
rebuildContent(pairs) ==
  [k \in 1..(2 * Len(pairs)) |->
     IF k % 2 = 1 THEN pairs[(k + 1) \div 2].key ELSE pairs[k \div 2].value]

services == <<"s","e","r","v","i","c","e","s">>

\* the pairs the docker-compose sorter collects from node.Content
collectPairs(n, top) ==
  [i \in 1..(Len(n.Content) \div 2) |->
     LET keyNode == n.Content[2 * i - 1]
         valueNode == n.Content[2 * i]
     IN  [key |-> keyNode,
          value |-> IF top /\ keyNode.Value = services /\ valueNode.Kind = MappingNode
                    THEN addServiceSpacing(valueNode)
                    ELSE valueNode,
          order |-> getKeyOrder(keyNode.Value, top),
          originalIdx |-> 2 * (i - 1),
          hasComment |-> hasComment(keyNode, valueNode)]]

\* a sorter without the test of the kind: it rebuilds the content of any node from
\* the pairs it finds
sortMappingNode_noKindTest(n, top) ==
  With(SliceStable(collectPairs(n, top)),
       LAMBDA sorted :
         With(IF top THEN topLevelSpacing(sorted) ELSE sorted,
              LAMBDA spaced : [n EXCEPT !.Content = rebuildContent(spaced)]))

\* DockerComposeFormatter.sortMappingNode
sortMappingNode(n, top) ==
  IF n.Kind # MappingNode \/ Len(n.Content) = 0 THEN n
  ELSE With(SliceStable(collectPairs(n, top)),
            LAMBDA sorted :
              With(IF top THEN topLevelSpacing(sorted) ELSE sorted,
                   LAMBDA spaced : [n EXCEPT !.Content = rebuildContent(spaced)]))

\* the pairs the traefik sorter collects from node.Content
traefik_collectPairs(n, top) ==
  [i \in 1..(Len(n.Content) \div 2) |->
     LET keyNode == n.Content[2 * i - 1]
         valueNode == n.Content[2 * i]
     IN  [key |-> keyNode,
          value |-> valueNode,
          order |-> traefik_getKeyOrder(keyNode.Value, top),
          originalIdx |-> 2 * (i - 1),
          hasComment |-> hasComment(keyNode, valueNode)]]

\* a sorter that puts the blank lines between the entries of every mapping
traefik_sortMappingNode_spacesEverywhere(n, top) ==
  IF n.Kind # MappingNode \/ Len(n.Content) = 0 THEN n
  ELSE With(SliceStable(traefik_collectPairs(n, top)),
            LAMBDA sorted :
              With(topLevelSpacing(sorted),
                   LAMBDA spaced : [n EXCEPT !.Content = rebuildContent(spaced)]))

\* TraefikFormatter.sortMappingNode
traefik_sortMappingNode(n, top) ==
  IF n.Kind # MappingNode \/ Len(n.Content) = 0 THEN n
  ELSE With(SliceStable(traefik_collectPairs(n, top)),
            LAMBDA sorted :
              With(IF top THEN topLevelSpacing(sorted) ELSE sorted,
                   LAMBDA spaced : [n EXCEPT !.Content = rebuildContent(spaced)]))

-----------------------------------------------------------------------------
(* Go library functions the value normalizer calls *)

\* strings.Index(s, c) for a one-byte c, counted from 0; -1 when c is not in s
Index(s, c) ==
  IF \E i \in 1..Len(s) : s[i] = c
  THEN (CHOOSE i \in 1..Len(s) : s[i] = c /\ \A j \in 1..(i - 1) : s[j] # c) - 1
  ELSE -1

\* strings.ContainsAny
ContainsAny(s, chars) == \E i \in 1..Len(s) : s[i] \in chars

\* strings.HasPrefix for a one-byte prefix
HasPrefix(s, c) == Len(s) > 0 /\ s[1] = c

\* lower-case form of one ASCII character
upperLetters ==
  <<"A","B","C","D","E","F","G","H","I","J","K","L","M",
    "N","O","P","Q","R","S","T","U","V","W","X","Y","Z">>

lowerLetters ==
  <<"a","b","c","d","e","f","g","h","i","j","k","l","m",
    "n","o","p","q","r","s","t","u","v","w","x","y","z">>

lowerChar(c) ==
  IF \E i \in 1..26 : upperLetters[i] = c
  THEN lowerLetters[CHOOSE i \in 1..26 : upperLetters[i] = c]
  ELSE c

\* strings.ToLower on ASCII text
ToLower(s) == [i \in 1..Len(s) |-> lowerChar(s[i])]

isDigit(c) == c \in {"0", "1", "2", "3", "4", "5", "6", "7", "8", "9"}

isHexLetter(c) == lowerChar(c) \in {"a", "b", "c", "d", "e", "f"}

RECURSIVE stripZeros(_)
stripZeros(s) == IF s # <<>> /\ s[1] = "0" THEN stripZeros(Tail(s)) ELSE s

maxInt64 == <<"9","2","2","3","3","7","2","0","3","6","8","5","4","7","7","5","8","0","7">>
minInt64 == <<"9","2","2","3","3","7","2","0","3","6","8","5","4","7","7","5","8","0","8">>

\* strconv.ParseInt(s, 10, 64) returns no error: an optional sign, then decimal
\* digits of a value within 64 bits
ParseInt(s) ==
  LET neg == Len(s) > 0 /\ s[1] = "-"
      body == IF Len(s) > 0 /\ s[1] \in {"+", "-"} THEN Tail(s) ELSE s
      digits == stripZeros(body)
      limit == IF neg THEN minInt64 ELSE maxInt64
  IN  /\ Len(body) > 0
      /\ \A i \in 1..Len(body) : isDigit(body[i])
      /\ \/ Len(digits) < Len(limit)
         \/ Len(digits) = Len(limit) /\ ~StrLess(limit, digits)

RECURSIVE commonPrefixLenIgnoreCase(_, _)
commonPrefixLenIgnoreCase(s, prefix) ==
  IF s = <<>> \/ prefix = <<>> \/ lowerChar(s[1]) # prefix[1] THEN 0
  ELSE 1 + commonPrefixLenIgnoreCase(Tail(s), Tail(prefix))

\* strconv's special: the bytes of s read as an infinity or a NaN, 0 if none
special(s) ==
  IF s = <<>> THEN 0
  ELSE IF s[1] \in {"+", "-", "i", "I"}
  THEN LET nsign == IF s[1] \in {"+", "-"} THEN 1 ELSE 0
           t == IF nsign = 1 THEN Tail(s) ELSE s
           n0 == commonPrefixLenIgnoreCase(t, <<"i","n","f","i","n","i","t","y">>)
           n == IF 3 < n0 /\ n0 < 8 THEN 3 ELSE n0
       IN  IF n = 3 \/ n = 8 THEN nsign + n ELSE 0
  ELSE IF s[1] \in {"n", "N"}
  THEN IF commonPrefixLenIgnoreCase(s, <<"n","a","n">>) = 3 THEN 3 ELSE 0
  ELSE 0

RECURSIVE scanMantissa(_, _, _, _, _, _)
\* the digit loop of strconv's readFloat, from position i (counted from 1)
scanMantissa(s, i, hex, sawdot, sawdigits, underscores) ==
  IF i > Len(s) THEN [i |-> i, sawdigits |-> sawdigits, underscores |-> underscores]
  ELSE IF s[i] = "_" THEN scanMantissa(s, i + 1, hex, sawdot, sawdigits, TRUE)
  ELSE IF s[i] = "."
  THEN IF sawdot THEN [i |-> i, sawdigits |-> sawdigits, underscores |-> underscores]
       ELSE scanMantissa(s, i + 1, hex, TRUE, sawdigits, underscores)
  ELSE IF isDigit(s[i]) \/ (hex /\ isHexLetter(s[i]))
  THEN scanMantissa(s, i + 1, hex, sawdot, TRUE, underscores)
  ELSE [i |-> i, sawdigits |-> sawdigits, underscores |-> underscores]

RECURSIVE scanExponent(_, _, _)
\* the exponent digits of readFloat
scanExponent(s, i, underscores) ==
  IF i <= Len(s) /\ (isDigit(s[i]) \/ s[i] = "_")
  THEN scanExponent(s, i + 1, underscores \/ s[i] = "_")
  ELSE [i |-> i, underscores |-> underscores]

RECURSIVE underscoreScan(_, _, _, _)
\* the loop of strconv's underscoreOK; saw is "0", "_", "!" or "^"
underscoreScan(s, i, hex, saw) ==
  IF i > Len(s) THEN saw # "_"
  ELSE IF isDigit(s[i]) \/ (hex /\ isHexLetter(s[i])) THEN underscoreScan(s, i + 1, hex, "0")
  ELSE IF s[i] = "_"
  THEN IF saw # "0" THEN FALSE ELSE underscoreScan(s, i + 1, hex, "_")
  ELSE IF saw = "_" THEN FALSE
  ELSE underscoreScan(s, i + 1, hex, "!")

underscoreOK(s0) ==
  LET s == IF Len(s0) >= 1 /\ s0[1] \in {"+", "-"} THEN Tail(s0) ELSE s0
      prefixed == Len(s) >= 2 /\ s[1] = "0" /\ lowerChar(s[2]) \in {"b", "o", "x"}
  IN  IF prefixed THEN underscoreScan(s, 3, lowerChar(s[2]) = "x", "0")
      ELSE underscoreScan(s, 1, FALSE, "^")

\* strconv's readFloat: the number of bytes of s read as a floating-point literal,
\* or -1 when s does not start with one
readFloat(s) ==
  IF s = <<>> THEN -1
  ELSE
    With(IF s[1] \in {"+", "-"} THEN 2 ELSE 1, LAMBDA i0 :
    With(i0 + 2 <= Len(s) /\ s[i0] = "0" /\ lowerChar(s[i0 + 1]) = "x", LAMBDA hex :
    With(scanMantissa(s, IF hex THEN i0 + 2 ELSE i0, hex, FALSE, FALSE, FALSE), LAMBDA m :
    With(m.i <= Len(s) /\ lowerChar(s[m.i]) = (IF hex THEN "p" ELSE "e"), LAMBDA hasExp :
    With(IF m.i + 1 <= Len(s) /\ s[m.i + 1] \in {"+", "-"} THEN m.i + 2 ELSE m.i + 1, LAMBDA i2 :
    With(IF hasExp THEN scanExponent(s, i2, m.underscores)
         ELSE [i |-> m.i, underscores |-> m.underscores], LAMBDA e :
      IF ~m.sawdigits THEN -1
      ELSE IF hasExp /\ (m.i + 1 > Len(s) \/ i2 > Len(s) \/ ~isDigit(s[i2])) THEN -1
      ELSE IF ~hasExp /\ hex THEN -1
      ELSE IF e.underscores /\ ~underscoreOK(SubSeq(s, 1, e.i - 1)) THEN -1
      ELSE e.i - 1))))))

\* strconv.ParseFloat(s, 64) returns no error.  The range error of a literal
\* beyond 1.8e308 is left out: it takes an exponent of three digits or a mantissa
\* of over 300, and no value enumerated below is that long.
ParseFloat(s) ==
  With(special(s), LAMBDA n : IF n > 0 THEN n = Len(s) ELSE readFloat(s) = Len(s))

-----------------------------------------------------------------------------
(* Value normalizer of the docker-compose formatter *)

\* a split at the last '=' instead of the first
parseEnvVar_lastEquals(envStr) ==
  LET idx == IF \E i \in 1..Len(envStr) : envStr[i] = "="
             THEN (CHOOSE i \in 1..Len(envStr) :
                     envStr[i] = "=" /\ \A j \in (i + 1)..Len(envStr) : envStr[j] # "=") - 1
             ELSE -1
      key == SubSeq(envStr, 1, idx)
      value == SubSeq(envStr, idx + 2, Len(envStr))
  IN  IF idx = -1 THEN [key |-> <<>>, value |-> <<>>, ok |-> FALSE]
      ELSE IF key = <<>> THEN [key |-> <<>>, value |-> <<>>, ok |-> FALSE]
      ELSE [key |-> key, value |-> value, ok |-> TRUE]

\* parseEnvVar: "KEY=VALUE" split at the first '='
parseEnvVar(envStr) ==
  LET idx == Index(envStr, "=")
      key == SubSeq(envStr, 1, idx)
      value == SubSeq(envStr, idx + 2, Len(envStr))
  IN  IF idx = -1 THEN [key |-> <<>>, value |-> <<>>, ok |-> FALSE]
      ELSE IF key = <<>> THEN [key |-> <<>>, value |-> <<>>, ok |-> FALSE]
      ELSE [key |-> key, value |-> value, ok |-> TRUE]

\* a check for integers only
isNumericLike_intOnly(value) == ParseInt(value)

isNumericLike(value) == ParseInt(value) \/ ParseFloat(value)

specialChars ==
  {"{", "}", "[", "]", ",", ":", "&", "*", "#", "?", "|", "-", "<", ">", "=", "!", "%", "@", "\\"}

yamlBools ==
  {<<"t","r","u","e">>, <<"f","a","l","s","e">>, <<"y","e","s">>, <<"n","o">>,
   <<"o","n">>, <<"o","f","f">>, <<"y">>, <<"n">>}

shouldQuoteValue(value) ==
  \/ value = <<>>
  \/ ContainsAny(value, {" ", "\t"})
  \/ isNumericLike(value)
  \/ ContainsAny(value, specialChars)
  \/ HasPrefix(value, "\"") \/ HasPrefix(value, "'")
  \/ ToLower(value) \in yamlBools

RECURSIVE envKeys(_, _)
\* keys: the keys of the well-formed scalar items, each at its first place
envKeys(items, keys) ==
  IF items = <<>> THEN keys
  ELSE LET item == Head(items)
           e == parseEnvVar(item.Value)
       IN  IF item.Kind # ScalarNode \/ ~e.ok \/ (\E k \in 1..Len(keys) : keys[k] = e.key)
           THEN envKeys(Tail(items), keys)
           ELSE envKeys(Tail(items), Append(keys, e.key))

RECURSIVE envMap(_, _)
\* envMap: the value of the last well-formed scalar item of each key
envMap(items, m) ==
  IF items = <<>> THEN m
  ELSE LET item == Head(items)
           e == parseEnvVar(item.Value)
       IN  IF item.Kind # ScalarNode \/ ~e.ok THEN envMap(Tail(items), m)
           ELSE envMap(Tail(items), [k \in DOMAIN m \cup {e.key} |->
                                       IF k = e.key THEN e.value ELSE m[k]])

\* a node built by a composite literal: every field not named is zero
newScalar(value, style) ==
  [Kind |-> ScalarNode, Tag |-> strTag, Style |-> style, Value |-> value,
   HeadComment |-> <<>>, LineComment |-> <<>>, FootComment |-> <<>>,
   Line |-> 0, Content |-> <<>>]

\* newContent of normalizeEnvironment
envContent(keys, m) ==
  [k \in 1..(2 * Len(keys)) |->
     LET key == keys[(k + 1) \div 2]
     IN  IF k % 2 = 1 THEN newScalar(key, DefaultStyle)
         ELSE newScalar(m[key], IF shouldQuoteValue(m[key]) THEN DoubleQuotedStyle
                                ELSE DefaultStyle)]

\* a conversion that does not stop when nothing was parsed
normalizeEnvironment_evenIfEmpty(n) ==
  IF n.Kind # SequenceNode THEN n
  ELSE [n EXCEPT !.Kind = MappingNode, !.Tag = mapTag, !.Style = DefaultStyle,
                 !.Content = envContent(envKeys(n.Content, <<>>), envMap(n.Content, <<>>))]

normalizeEnvironment(n) ==
  IF n.Kind # SequenceNode THEN n
  ELSE LET m == envMap(n.Content, <<>>)
           keys == envKeys(n.Content, <<>>)
       IN  IF DOMAIN m = {} THEN n
           ELSE [n EXCEPT !.Kind = MappingNode, !.Tag = mapTag, !.Style = DefaultStyle,
                          !.Content = envContent(keys, m)]

\* a restyling that leaves every tag as it was
normalizePorts_styleOnly(n) ==
  IF n.Kind # SequenceNode THEN n
  ELSE [n EXCEPT !.Content =
          [i \in 1..Len(@) |->
             IF @[i].Kind = ScalarNode
             THEN [@[i] EXCEPT !.Style = DoubleQuotedStyle]
             ELSE @[i]]]

normalizePorts(n) ==
  IF n.Kind # SequenceNode THEN n
  ELSE [n EXCEPT !.Content =
          [i \in 1..Len(@) |->
             IF @[i].Kind = ScalarNode
             THEN [@[i] EXCEPT !.Tag = strTag, !.Style = DoubleQuotedStyle]
             ELSE @[i]]]

environment == <<"e","n","v","i","r","o","n","m","e","n","t">>
ports == <<"p","o","r","t","s">>

\* a dispatch that takes every key for `environment`
normalizeValues_anyKey(n, key) == normalizeEnvironment(n)

normalizeValues(n, key) ==
  IF key = environment THEN normalizeEnvironment(n)
  ELSE IF key = ports THEN normalizePorts(n)
  ELSE n

-----------------------------------------------------------------------------
(* Tree walkers *)

RECURSIVE formatNodeWithContext(_, _, _)
\* a walk that forgets the key when it goes into the elements of a sequence
formatNodeWithContext_keyLostInSequence(n, isRoot, key) ==
  IF n = None THEN n
  ELSE With(normalizeValues(IF n.Kind = MappingNode THEN sortMappingNode(n, isRoot) ELSE n,
                            key),
            LAMBDA normal :
              IF isRoot /\ normal.Kind = DocumentNode /\ Len(normal.Content) > 0
              THEN [normal EXCEPT
                      !.Content[1] = formatNodeWithContext(normal.Content[1], TRUE, <<>>)]
              ELSE IF normal.Kind = MappingNode
              THEN [normal EXCEPT !.Content =
                      [i \in 1..Len(normal.Content) |->
                         IF i % 2 = 0
                         THEN formatNodeWithContext(normal.Content[i], FALSE,
                                                    normal.Content[i - 1].Value)
                         ELSE normal.Content[i]]]
              ELSE [normal EXCEPT !.Content =
                      [i \in 1..Len(normal.Content) |->
                         formatNodeWithContext(normal.Content[i], FALSE, <<>>)]])

\* DockerComposeFormatter.formatNodeWithContext; a nil node is None
formatNodeWithContext(n, isRoot, key) ==
  IF n = None THEN n
  ELSE With(normalizeValues(IF n.Kind = MappingNode THEN sortMappingNode(n, isRoot) ELSE n,
                            key),
            LAMBDA normal :
              IF isRoot /\ normal.Kind = DocumentNode /\ Len(normal.Content) > 0
              THEN [normal EXCEPT
                      !.Content[1] = formatNodeWithContext(normal.Content[1], TRUE, <<>>)]
              ELSE IF normal.Kind = MappingNode
              THEN [normal EXCEPT !.Content =
                      [i \in 1..Len(normal.Content) |->
                         IF i % 2 = 0
                         THEN formatNodeWithContext(normal.Content[i], FALSE,
                                                    normal.Content[i - 1].Value)
                         ELSE normal.Content[i]]]
              ELSE [normal EXCEPT !.Content =
                      [i \in 1..Len(normal.Content) |->
                         formatNodeWithContext(normal.Content[i], FALSE, key)]])

\* DockerComposeFormatter.formatNode
formatNode(n, isRoot) == formatNodeWithContext(n, isRoot, <<>>)

RECURSIVE traefik_formatNode(_, _)
\* TraefikFormatter.formatNode
traefik_formatNode(n, isRoot) ==
  IF n = None THEN n
  ELSE With(IF n.Kind = MappingNode THEN traefik_sortMappingNode(n, isRoot) ELSE n,
            LAMBDA sorted :
              IF isRoot /\ sorted.Kind = DocumentNode /\ Len(sorted.Content) > 0
              THEN [sorted EXCEPT !.Content[1] = traefik_formatNode(sorted.Content[1], TRUE)]
              ELSE [sorted EXCEPT !.Content =
                      [i \in 1..Len(sorted.Content) |->
                         traefik_formatNode(sorted.Content[i], FALSE)]])

-----------------------------------------------------------------------------
(* Inputs of the sorter: the mappings a parsed document can hold *)

Profiles == {"docker-compose", "traefik"}

commentText == <<"#"," ","c">>

\* the comment slots of a pair that the sorter reads
SlotKinds == {"keyHead", "keyLine", "keyFoot", "valueHead"}

image == <<"i","m","a","g","e">>
volumes == <<"v","o","l","u","m","e","s">>
alpha == <<"a","l","p","h","a">>
zeta == <<"z","e","t","a">>
http == <<"h","t","t","p">>
routers == <<"r","o","u","t","e","r","s">>
middlewares == <<"m","i","d","d","l","e","w","a","r","e","s">>

\* key names of the enumerated mappings: ranked at the top level, ranked in a
\* nested mapping, and two of no table
SortKeys(p) ==
  IF p = "docker-compose" THEN {services, image, alpha, zeta}
  ELSE {http, routers, alpha, zeta}

\* the value under a key: a scalar, or a mapping of two entries under `services`
valueOf(key, line) ==
  IF key = services
  THEN Mapping(<<Scalar(<<"w">>, line + 1), Scalar(<<"x">>, line + 1),
                 Scalar(<<"d">>, line + 2), Scalar(<<"y">>, line + 2)>>, line + 1)
  ELSE Scalar(<<"v">>, line)

\* a key/value pair on the given line, with a comment in the given slot
pairNodes(key, commented, slot, line) ==
  LET k == Scalar(key, line)
      v == valueOf(key, line)
  IN  IF ~commented THEN <<k, v>>
      ELSE IF slot = "keyHead" THEN <<[k EXCEPT !.HeadComment = commentText], v>>
      ELSE IF slot = "keyLine" THEN <<[k EXCEPT !.LineComment = commentText], v>>
      ELSE IF slot = "keyFoot" THEN <<[k EXCEPT !.FootComment = commentText], v>>
      ELSE <<k, [v EXCEPT !.HeadComment = commentText]>>

\* the mapping with the given keys, pair i on line 10 * i, as the parser yields it
parsedMapping(keys, commented, slot) ==
  Mapping([k \in 1..(2 * Len(keys)) |->
             LET i == (k + 1) \div 2
             IN  pairNodes(keys[i], commented[i], slot, 10 * i)[2 - (k % 2)]], 1)

\* the mapping as the sorter receives it: the parsed one, or, for the mapping
\* under `services`, the parsed one after addServiceSpacing ran on it
mappingOf(keys, commented, slot, spaced) ==
  IF spaced THEN addServiceSpacing(parsedMapping(keys, commented, slot))
  ELSE parsedMapping(keys, commented, slot)

\* names of the entries of a `services` mapping
ServiceNames == {<<"w","e","b">>, <<"d","b">>}

\* a mapping that holds the given value under the given key, ahead of `version`
servicesHolder(key, value) ==
  Mapping(<<Scalar(key, 10), value,
            Scalar(<<"v","e","r","s","i","o","n">>, 40), Scalar(<<"3">>, 40)>>, 1)

\* the keys the README lists for the root of a docker-compose file, but `services`
TopLevelListed ==
  <<<<"v","e","r","s","i","o","n">>,
    <<"n","a","m","e">>,
    <<"n","e","t","w","o","r","k","s">>,
    <<"v","o","l","u","m","e","s">>,
    <<"c","o","n","f","i","g","s">>,
    <<"s","e","c","r","e","t","s">>>>

\* the keys the README lists for a service
ServiceListed ==
  <<<<"i","m","a","g","e">>,
    <<"b","u","i","l","d">>,
    <<"c","o","n","t","a","i","n","e","r","_","n","a","m","e">>,
    <<"h","o","s","t","n","a","m","e">>,
    <<"c","o","m","m","a","n","d">>,
    <<"e","n","t","r","y","p","o","i","n","t">>,
    <<"e","n","v","i","r","o","n","m","e","n","t">>,
    <<"e","n","v","_","f","i","l","e">>,
    <<"p","o","r","t","s">>,
    <<"e","x","p","o","s","e">>,
    <<"v","o","l","u","m","e","s">>,
    <<"n","e","t","w","o","r","k","s">>,
    <<"d","e","p","e","n","d","s","_","o","n">>>>

\* the keys the README lists for the HTTP section
ProtocolListed ==
  <<<<"r","o","u","t","e","r","s">>,
    <<"s","e","r","v","i","c","e","s">>,
    <<"m","i","d","d","l","e","w","a","r","e","s">>,
    <<"s","e","r","v","e","r","s","T","r","a","n","s","p","o","r","t","s">>>>

\* some keys of a router and the keys of a deploy block
RouterKeys == {<<"r","u","l","e">>, <<"s","e","r","v","i","c","e">>, middlewares, <<"t","l","s">>}
DeployKeys == DOMAIN deployOrder

tcp == <<"t","c","p">>
deploy == <<"d","e","p","l","o","y">>
web == <<"w","e","b">>
router1 == <<"r","o","u","t","e","r","1">>

Range(s) == {s[i] : i \in 1..Len(s)}

\* number of pairs of the mappings enumerated over whole key lists
MaxOrderPairs == 2

\* mappings in their place in a document: the formatter, whether the mapping is the
\* root, the key that encloses it, and the keys it may hold
OrderContexts ==
  { [profile |-> "docker-compose", top |-> TRUE, parent |-> None,
     keys |-> Range(TopLevelListed) \cup {services, alpha}],
    [profile |-> "docker-compose", top |-> FALSE, parent |-> web,
     keys |-> Range(ServiceListed)],
    [profile |-> "docker-compose", top |-> FALSE, parent |-> deploy, keys |-> DeployKeys],
    [profile |-> "traefik", top |-> TRUE, parent |-> None, keys |-> {http, tcp, alpha}],
    [profile |-> "traefik", top |-> FALSE, parent |-> http, keys |-> Range(ProtocolListed)],
    [profile |-> "traefik", top |-> FALSE, parent |-> tcp, keys |-> Range(ProtocolListed)],
    [profile |-> "traefik", top |-> FALSE, parent |-> router1, keys |-> RouterKeys] }

letters == <<"a","b","c","d","e","f","g","h","i","j","k","l","m",
             "n","o","p","q","r","s","t","u","v","w","x","y","z">>

\* a mapping one pair longer than an insertion block: blockSize keys of no table
\* in ascending order, the c-th of them commented (none for c = 0), then one more key
longMapping(last, c) ==
  mappingOf([i \in 1..(blockSize + 1) |->
               IF i <= blockSize THEN <<"k", letters[i]>> ELSE last],
            [i \in 1..(blockSize + 1) |-> i = c],
            "keyLine", FALSE)

-----------------------------------------------------------------------------
(* The sorter on its own *)

InitSort ==
  /\ profile \in Profiles
  /\ isTopLevel \in BOOLEAN
  /\ \/ /\ parentKey = None
        /\ \/ \E n \in 0..MaxPairs :
                \E keys \in [1..n -> SortKeys(profile)], commented \in [1..n -> BOOLEAN],
                   slot \in SlotKinds,
                   spaced \in {FALSE, profile = "docker-compose" /\ ~isTopLevel} :
                  node = mappingOf(keys, commented, slot, spaced)
           \/ \E last \in SortKeys(profile), c \in 0..blockSize :
                node = longMapping(last, c)
           \/ \E n \in 0..MaxPairs :
                \E names \in [1..n -> ServiceNames], commented \in [1..n -> BOOLEAN],
                   slot \in SlotKinds, key \in {services, alpha} :
                  node = servicesHolder(key, parsedMapping(names, commented, slot))
           \/ node = servicesHolder(services, Scalar(<<"v">>, 10))
           \/ node \in {Scalar(<<"v">>, 10), Sequence(<<Scalar(<<"v">>, 10)>>, 10)}
     \/ \E c \in OrderContexts :
          /\ c.profile = profile
          /\ c.top = isTopLevel
          /\ parentKey = c.parent
          /\ \E n \in 0..MaxOrderPairs :
               \E keys \in [1..n -> c.keys] :
                 node = parsedMapping(keys, [i \in 1..n |-> FALSE], "keyLine")
  /\ pc = "sort"
  /\ result = node
  /\ input = None
  /\ doc = None
  /\ out1 = None
  /\ out2 = None
  /\ indent = defaultIndent
  /\ flags = None
  /\ fs = None
  /\ err = None
  /\ exitCode = None

DockerSort ==
  /\ pc = "sort"
  /\ profile = "docker-compose"
  /\ result' = sortMappingNode(node, isTopLevel)
  /\ pc' = "sorted"
  /\ UNCHANGED <<profile, node, parentKey, isTopLevel, indent, input, doc, out1, out2, flags, fs, err, exitCode>>

TraefikSort ==
  /\ pc = "sort"
  /\ profile = "traefik"
  /\ result' = traefik_sortMappingNode(node, isTopLevel)
  /\ pc' = "sorted"
  /\ UNCHANGED <<profile, node, parentKey, isTopLevel, indent, input, doc, out1, out2, flags, fs, err, exitCode>>

NextSort == DockerSort \/ TraefikSort

SpecSort == InitSort /\ [][NextSort]_vars

-----------------------------------------------------------------------------
(* Reading a mapping pair by pair *)

pairCount(n) == Len(n.Content) \div 2
keyAt(n, i) == n.Content[2 * i - 1]
valueAt(n, i) == n.Content[2 * i]

\* the place, after the operation, of the pair whose key node stood on the given line
placeOf(n, line) == CHOOSE j \in 1..pairCount(n) : keyAt(n, j).Line = line

\* a pair with a non-empty comment slot
CommentBearing(n, i) ==
  \/ keyAt(n, i).HeadComment # <<>>
  \/ keyAt(n, i).LineComment # <<>>
  \/ keyAt(n, i).FootComment # <<>>
  \/ valueAt(n, i).HeadComment # <<>>

NoComments(n) == \A i \in 1..pairCount(n) : ~CommentBearing(n, i)

\* the same key node, whatever spacing was put into its head comment
SameKeyNode(k1, k2) == [k1 EXCEPT !.HeadComment = <<>>] = [k2 EXCEPT !.HeadComment = <<>>]

\* a node without the head comments of the keys directly inside it
WithoutEntryHeads(v) ==
  IF v.Kind = MappingNode
  THEN [v EXCEPT !.Content =
          [i \in 1..Len(@) |-> IF i % 2 = 1 THEN [@[i] EXCEPT !.HeadComment = <<>>] ELSE @[i]]]
  ELSE v

\* the rank the formatter in use gives a key of the mapping being sorted
rankOf(key) ==
  IF profile = "docker-compose" THEN getKeyOrder(key, isTopLevel)
  ELSE traefik_getKeyOrder(key, isTopLevel)

\* the pairs after sorting are the pairs before it, each once, key bound to its value
SamePairs(valueKept(_, _)) ==
  /\ Len(result.Content) = Len(node.Content)
  /\ \A i \in 1..pairCount(node) :
       Cardinality({j \in 1..pairCount(result) :
                      keyAt(result, j).Line = keyAt(node, i).Line}) = 1
  /\ \A i \in 1..pairCount(node) :
       LET j == placeOf(result, keyAt(node, i).Line)
       IN  /\ SameKeyNode(keyAt(result, j), keyAt(node, i))
           /\ valueKept(valueAt(result, j), valueAt(node, i))

ValueUntouched(after, before) == after = before

ValueUntouchedButServiceSpacing(after, before) ==
  IF profile = "docker-compose" /\ isTopLevel
  THEN WithoutEntryHeads(after) = WithoutEntryHeads(before)
  ELSE after = before

-----------------------------------------------------------------------------
(* Claims about the sorter, checked under SpecSort *)

C3_CommentFreeze ==
  pc = "sorted" =>
    \A i, j \in 1..pairCount(node) :
      (i < j /\ (CommentBearing(node, i) \/ CommentBearing(node, j)))
        => placeOf(result, keyAt(node, i).Line) < placeOf(result, keyAt(node, j).Line)

InConsultedTable(key) ==
  IF profile = "docker-compose"
  THEN \/ isTopLevel /\ key \in DOMAIN topLevelOrder
       \/ ~isTopLevel /\ key \in DOMAIN serviceLevelOrder
       \/ key \in DOMAIN buildOrder \cup DOMAIN deployOrder \cup DOMAIN networkOrder
       \/ key \in DOMAIN volumeOrder \cup DOMAIN secretsOrder \cup DOMAIN configsOrder
  ELSE \/ isTopLevel /\ key \in DOMAIN traefik_topLevelOrder
       \/ key \in DOMAIN traefik_routerOrder \cup DOMAIN traefik_serviceOrder
       \/ key \in DOMAIN traefik_loadBalancerOrder \cup DOMAIN traefik_middlewareOrder
       \/ key \in DOMAIN traefik_entryPointOrder \cup DOMAIN traefik_tlsOrder
       \/ key \in DOMAIN traefik_providerOrder \cup DOMAIN traefik_httpOrder
       \/ key \in DOMAIN traefik_tcpOrder \cup DOMAIN traefik_udpOrder

\* C5: in a mapping without comments every key of no table stands after every key
\* of a table, and the keys of no table are in ascending order; at the root as well
\* as in nested mappings.
C5_UnknownKeysLast ==
  (pc = "sorted" /\ NoComments(node)) =>
    \A i, j \in 1..pairCount(result) :
      /\ (~InConsultedTable(keyAt(result, i).Value) /\ InConsultedTable(keyAt(result, j).Value))
           => j < i
      /\ (i < j /\ ~InConsultedTable(keyAt(result, i).Value)
                /\ ~InConsultedTable(keyAt(result, j).Value))
           => ~StrLess(keyAt(result, j).Value, keyAt(result, i).Value)

\* the head comment of a key once a blank line has been asked for before it
spacedHead(head) ==
  IF head = <<>> THEN <<"\n">>
  ELSE IF head[1] = "\n" THEN head
  ELSE <<"\n">> \o head

\* C12: after the sort of the root mapping the key of every entry but the first of
\* the sorted order has a head comment that begins with a newline (an empty one is
\* now a newline, any other has a newline before its text), the first entry's head
\* comment is as it was; the sort of a nested mapping changes no head comment of
\* its keys.
C12_TopLevelSpacing ==
  pc = "sorted" =>
    \A j \in 1..pairCount(result) :
      keyAt(result, j).HeadComment =
        IF isTopLevel /\ j > 1
        THEN spacedHead(keyAt(node, placeOf(node, keyAt(result, j).Line)).HeadComment)
        ELSE keyAt(node, placeOf(node, keyAt(result, j).Line)).HeadComment

\* a root mapping whose sort moved another pair to the front, with a spaced key
\* that had no comment and a spaced key that keeps its comment text
C12_Witness ==
  /\ pc = "sorted"
  /\ isTopLevel
  /\ pairCount(result) = 3
  /\ keyAt(result, 1).Line # keyAt(node, 1).Line
  /\ keyAt(result, 1).HeadComment = <<>>
  /\ \E i, j \in 2..3 :
       /\ keyAt(result, i).HeadComment = <<"\n">>
       /\ keyAt(result, j).HeadComment = <<"\n">> \o commentText

\* the value a pair of the mapping has after the operation
valueAfter(i) == valueAt(result, placeOf(result, keyAt(node, i).Line))

\* the pair of the root mapping that the services hook of the docker-compose
\* sorter acts on
ServicesEntry(i) ==
  /\ profile = "docker-compose"
  /\ isTopLevel
  /\ keyAt(node, i).Value = services
  /\ valueAt(node, i).Kind = MappingNode

\* C13: the sort of the root mapping of a docker-compose document leaves the
\* entries of the mapping under `services` in their order, the key of each entry
\* from the second on with a head comment that begins with a newline, the first
\* entry's head comment as it was; the walk that follows keeps both; a value of
\* `services` that is no mapping, and a `services` key outside the root mapping,
\* get nothing.
C13_ServiceSpacing ==
  pc = "sorted" =>
    \A i \in 1..pairCount(node) :
      IF ServicesEntry(i)
      THEN /\ Len(valueAfter(i).Content) = Len(valueAt(node, i).Content)
           /\ \A e \in 1..pairCount(valueAt(node, i)) :
                /\ SameKeyNode(keyAt(valueAfter(i), e), keyAt(valueAt(node, i), e))
                /\ valueAt(valueAfter(i), e) = valueAt(valueAt(node, i), e)
                /\ keyAt(valueAfter(i), e).HeadComment =
                     IF e > 1 THEN spacedHead(keyAt(valueAt(node, i), e).HeadComment)
                     ELSE keyAt(valueAt(node, i), e).HeadComment
           /\ formatNodeWithContext(valueAfter(i), FALSE, services).Content
                = valueAfter(i).Content
      ELSE valueAfter(i) = valueAt(node, i)

\* a `services` mapping of three entries given in descending order of name, the
\* third with a comment of its own: the second and third are spaced, the first not
C13_Witness ==
  /\ pc = "sorted"
  /\ \E i \in 1..pairCount(node) :
       /\ ServicesEntry(i)
       /\ pairCount(valueAfter(i)) = 3
       /\ StrLess(keyAt(valueAfter(i), 2).Value, keyAt(valueAfter(i), 1).Value)
       /\ keyAt(valueAfter(i), 1).HeadComment = <<>>
       /\ keyAt(valueAfter(i), 2).HeadComment = <<"\n">>
       /\ keyAt(valueAfter(i), 3).HeadComment = <<"\n">> \o commentText

\* the place of a key in a list of keys
indexIn(listed, key) == CHOOSE i \in 1..Len(listed) : listed[i] = key

\* the keys of the sorted mapping that the list holds stand in the order of the list
InListedOrder(listed) ==
  \A i, j \in 1..pairCount(result) :
    ( /\ i < j
      /\ keyAt(result, i).Value \in Range(listed)
      /\ keyAt(result, j).Value \in Range(listed) )
      => indexIn(listed, keyAt(result, i).Value) <= indexIn(listed, keyAt(result, j).Value)

C18_ContextAwareOrder ==
  (pc = "sorted" /\ profile = "docker-compose" /\ NoComments(node)) =>
    IF isTopLevel
    THEN InListedOrder(<<<<"n","e","t","w","o","r","k","s">>, volumes, <<"c","o","n","f","i","g","s">>>>)
    ELSE InListedOrder(ServiceListed)

\* a service written networks-then-volumes that the sorter turned round
C18_Witness ==
  /\ pc = "sorted"
  /\ profile = "docker-compose"
  /\ ~isTopLevel
  /\ parentKey = web
  /\ NoComments(node)
  /\ pairCount(node) = 2
  /\ keyAt(node, 1).Value = <<"n","e","t","w","o","r","k","s">>
  /\ keyAt(node, 2).Value = volumes
  /\ keyAt(result, 1).Value = volumes
  /\ keyAt(result, 2).Value = <<"n","e","t","w","o","r","k","s">>

\* C19: in the mapping under the top-level key `http` or `tcp` of a traefik file,
\* when no entry has a comment, the keys stand in the order routers, services,
\* middlewares, serversTransports.
C19_ProtocolSectionOrder ==
  ( /\ pc = "sorted"
    /\ profile = "traefik"
    /\ ~isTopLevel
    /\ parentKey \in {http, tcp}
    /\ NoComments(node) )
    => InListedOrder(ProtocolListed)

\* the table that belongs to the mapping under the given key
contextTable(p, parent) ==
  IF p = "traefik"
  THEN IF parent = http THEN traefik_httpOrder
       ELSE IF parent = tcp THEN traefik_tcpOrder
       ELSE traefik_routerOrder
  ELSE IF parent = deploy THEN deployOrder
       ELSE serviceLevelOrder

\* the rank of a key by the table of the enclosing key alone
contextRank(key) ==
  IF key \in DOMAIN contextTable(profile, parentKey)
  THEN contextTable(profile, parentKey)[key]
  ELSE IF profile = "traefik" THEN traefik_defaultOrder ELSE defaultOrder

\* C20: a nested mapping without comments is ordered by the table of its enclosing
\* key (the section table under `http` and `tcp`, the router table in a router entry,
\* the deploy table under `deploy`, the service table in a service), not by what the
\* key name alone selects.
C20_TableByContext ==
  (pc = "sorted" /\ ~isTopLevel /\ parentKey # None /\ NoComments(node)) =>
    \A i, j \in 1..pairCount(result) :
      i < j => contextRank(keyAt(result, i).Value) <= contextRank(keyAt(result, j).Value)

\* the ordering tables of a formatter
orderTables(p) ==
  IF p = "docker-compose"
  THEN {topLevelOrder, serviceLevelOrder, buildOrder, deployOrder, networkOrder,
        volumeOrder, secretsOrder, configsOrder}
  ELSE {traefik_topLevelOrder, traefik_httpOrder, traefik_tcpOrder, traefik_udpOrder,
        traefik_routerOrder, traefik_serviceOrder, traefik_loadBalancerOrder,
        traefik_middlewareOrder, traefik_entryPointOrder, traefik_tlsOrder,
        traefik_providerOrder}

\* C21: the rank getKeyOrder returns for a key of no table (zeta) is strictly greater
\* than every rank written in any ordering table of the formatter in use, in the
\* root mapping as well as in a nested one.
C21_DefaultRankAboveTables ==
  /\ \A t \in orderTables(profile) : zeta \notin DOMAIN t
  /\ \A t \in orderTables(profile) : \A k \in DOMAIN t : t[k] < rankOf(zeta)

\* C23: an entry of the `services` mapping whose only comment is the newline that
\* addServiceSpacing put into its head comment does not count as commented when the
\* walk sorts the `services` mapping: the entries of a `services` mapping written
\* without comments come out of the walk ordered by rank, then by name.
C23_SpacingDoesNotFreeze ==
  pc = "sorted" =>
    \A i \in 1..pairCount(node) :
      (ServicesEntry(i) /\ NoComments(valueAt(node, i))) =>
        \A w \in {formatNodeWithContext(valueAfter(i), FALSE, services)} :
          \A a, b \in 1..pairCount(w) :
            a < b =>
              \/ getKeyOrder(keyAt(w, a).Value, FALSE) < getKeyOrder(keyAt(w, b).Value, FALSE)
              \/ /\ getKeyOrder(keyAt(w, a).Value, FALSE) = getKeyOrder(keyAt(w, b).Value, FALSE)
                 /\ ~StrLess(keyAt(w, b).Value, keyAt(w, a).Value)

\* the indices of node.Content the pair loop reads: i and i + 1 for i = 0, 2, ...
\* below len(node.Content)
contentReads(n) ==
  UNION {{i, i + 1} : i \in {j \in 0..(Len(n.Content) - 1) : j % 2 = 0}}

\* C25: sortMappingNode returns a node that is no mapping, and a mapping without
\* pairs, as it got it: no reordering, no comment put in; on a mapping with an even
\* number of content nodes every index the pair loop reads is within the content,
\* and the node returned is a mapping of as many content nodes.
C25_SortNeverFails ==
  pc = "sorted" =>
    /\ (node.Kind # MappingNode \/ Len(node.Content) = 0) => result = node
    /\ (node.Kind = MappingNode /\ Len(node.Content) % 2 = 0) =>
         /\ \A r \in contentReads(node) : r < Len(node.Content)
         /\ result.Kind = MappingNode
         /\ Len(result.Content) = Len(node.Content)

\* the sorter called for the root on a list of one item
C25_Witness ==
  /\ pc = "sorted"
  /\ isTopLevel
  /\ node.Kind = SequenceNode
  /\ Len(node.Content) = 1
  /\ result = node

-----------------------------------------------------------------------------
(* Inputs of the value normalizer: the nodes the walker finds under a key *)

\* largest number of items of an enumerated list
MaxItems == 4

\* largest number of tokens an enumerated environment value is made of
MaxTokens == 2

other == <<"c","o","m","m","a","n","d">>

ParentKeys == {environment, ports, other}

\* an item of a list, on the given line: KEY=VALUE strings, malformed strings,
\* a number, quoted strings, a mapping (long syntax), an item with a comment
item(kind, line) ==
  CASE kind = 1 -> Scalar(<<"A","=","1">>, line)
    [] kind = 2 -> Scalar(<<"B","=","x">>, line)
    [] kind = 3 -> Scalar(<<"A","=">>, line)
    [] kind = 4 -> Scalar(<<"B","=","a","=","b">>, line)
    [] kind = 5 -> Scalar(<<"=","n","o","v","a","l","u","e">>, line)
    [] kind = 6 -> Scalar(<<"o","k">>, line)
    [] kind = 7 -> Mapping(<<Scalar(<<"t","a","r","g","e","t">>, line), Node(ScalarNode, intTag, DefaultStyle, <<"8","0">>, line, <<>>)>>, line)
    [] kind = 8 -> [Scalar(<<"C","=","o","n">>, line) EXCEPT !.LineComment = commentText]
    [] kind = 9 -> Node(ScalarNode, intTag, DefaultStyle, <<"8","0","8","0">>, line, <<>>)
    [] kind = 10 -> Node(ScalarNode, strTag, SingleQuotedStyle, <<"8","0",":","8","0">>, line, <<>>)
    [] kind = 11 -> [Scalar(<<"5","3",":","5","3","/","u","d","p">>, line) EXCEPT !.HeadComment = commentText]

ItemKinds(key) == IF key = environment THEN 1..8 ELSE 7..11

\* the list with items of the given kinds, item i on line i + 1
listOf(kinds) == Sequence([i \in 1..Len(kinds) |-> item(kinds[i], i + 1)], 2)

Tokens ==
  {<<"1">>, <<".">>, <<"e">>, <<"-">>, <<"+">>, <<" ">>, <<"\t">>, <<"\n">>, <<"a">>, <<":">>, <<"'">>, <<"\"">>, <<"t","r">>, <<"u","e">>,
   <<"O">>, <<"f","f">>, <<"n">>, <<"y">>, <<"i","n","f">>, <<"0","x">>, <<"_">>}

RECURSIVE concat(_)
concat(tokens) == IF tokens = <<>> THEN <<>> ELSE Head(tokens) \o concat(Tail(tokens))

\* the one-item list [K=value]
valueList(value) == Sequence(<<Scalar(<<"K","=">> \o value, 3)>>, 2)

-----------------------------------------------------------------------------
(* The value normalizer on its own *)

InitNorm ==
  /\ profile = "docker-compose"
  /\ parentKey \in ParentKeys
  /\ \/ \E n \in 0..MaxItems : \E kinds \in [1..n -> ItemKinds(parentKey)] :
          node = listOf(kinds)
     \/ \E n \in 0..MaxTokens : \E tokens \in [1..n -> Tokens] :
          node = valueList(concat(tokens))
     \/ node = Mapping(<<Scalar(<<"A">>, 3), Scalar(<<"1">>, 3)>>, 3)
     \/ node = Scalar(<<"A","=","1">>, 2)
  /\ pc = "normalize"
  /\ result = node
  /\ isTopLevel = FALSE
  /\ input = None
  /\ doc = None
  /\ out1 = None
  /\ out2 = None
  /\ indent = defaultIndent
  /\ flags = None
  /\ fs = None
  /\ err = None
  /\ exitCode = None

\* case "environment"
NormalizeEnvironment ==
  /\ pc = "normalize"
  /\ parentKey = environment
  /\ result' = normalizeValues(node, parentKey)
  /\ pc' = "normalized"
  /\ UNCHANGED <<profile, node, parentKey, isTopLevel, indent, input, doc, out1, out2, flags, fs, err, exitCode>>

\* case "ports"
NormalizePorts ==
  /\ pc = "normalize"
  /\ parentKey = ports
  /\ result' = normalizeValues(node, parentKey)
  /\ pc' = "normalized"
  /\ UNCHANGED <<profile, node, parentKey, isTopLevel, indent, input, doc, out1, out2, flags, fs, err, exitCode>>

\* no case of the switch
NormalizeNothing ==
  /\ pc = "normalize"
  /\ parentKey \notin {environment, ports}
  /\ result' = normalizeValues(node, parentKey)
  /\ pc' = "normalized"
  /\ UNCHANGED <<profile, node, parentKey, isTopLevel, indent, input, doc, out1, out2, flags, fs, err, exitCode>>

NextNorm == NormalizeEnvironment \/ NormalizePorts \/ NormalizeNothing

SpecNorm == InitNorm /\ [][NextNorm]_vars

-----------------------------------------------------------------------------
(* Claims about the value normalizer, checked under SpecNorm *)

\* a scalar item that reads KEY=VALUE with a non-empty key
WellFormed(it) ==
  /\ it.Kind = ScalarNode
  /\ \E i \in 2..Len(it.Value) : it.Value[i] = "=" /\ \A j \in 1..(i - 1) : it.Value[j] # "="

\* the place of the first '=' of a well-formed item
firstEquals(it) ==
  CHOOSE i \in 1..Len(it.Value) : it.Value[i] = "=" /\ \A j \in 1..(i - 1) : it.Value[j] # "="

itemKey(it) == SubSeq(it.Value, 1, firstEquals(it) - 1)
itemValue(it) == SubSeq(it.Value, firstEquals(it) + 1, Len(it.Value))

\* the places of the well-formed items of a list that carry the given key
placesOf(list, key) ==
  {i \in 1..Len(list.Content) : WellFormed(list.Content[i]) /\ itemKey(list.Content[i]) = key}

firstSeen(list, key) == CHOOSE i \in placesOf(list, key) : \A j \in placesOf(list, key) : i <= j
lastSeen(list, key) == CHOOSE i \in placesOf(list, key) : \A j \in placesOf(list, key) : j <= i

\* an `environment` list with at least one well-formed item has been normalized
EnvironmentNormalized ==
  /\ pc = "normalized"
  /\ parentKey = environment
  /\ node.Kind = SequenceNode
  /\ \E i \in 1..Len(node.Content) : WellFormed(node.Content[i])

\* C7: an `environment` sequence with a well-formed item becomes a mapping; every
\* scalar item is split at its first '=', items without '=' or with an empty key and
\* non-scalar items are skipped, a repeated key takes the value of its last item
\* and the place of its first, no key stands twice, and the walker's visit of the
\* node leaves the keys in that first-seen order.
C7_EnvironmentFirstSeenOrder ==
  EnvironmentNormalized =>
    /\ result.Kind = MappingNode
    /\ Len(result.Content) % 2 = 0
    /\ {keyAt(result, a).Value : a \in 1..pairCount(result)}
         = {itemKey(node.Content[i]) :
              i \in {k \in 1..Len(node.Content) : WellFormed(node.Content[k])}}
    /\ \A a, b \in 1..pairCount(result) :
         a < b => /\ keyAt(result, a).Value # keyAt(result, b).Value
                  /\ firstSeen(node, keyAt(result, a).Value)
                       < firstSeen(node, keyAt(result, b).Value)
    /\ \A a \in 1..pairCount(result) :
         valueAt(result, a).Value
           = itemValue(node.Content[lastSeen(node, keyAt(result, a).Value)])
    /\ formatNodeWithContext(node, FALSE, parentKey) = result

\* a list with a skipped item and a repeated key whose later value, holding a '=',
\* took the place of the earlier one, the keys first seen in descending order
C7_Witness ==
  /\ EnvironmentNormalized
  /\ \E i \in 1..Len(node.Content) : ~WellFormed(node.Content[i])
  /\ \E a \in 1..pairCount(result) :
       /\ Cardinality(placesOf(node, keyAt(result, a).Value)) > 1
       /\ "=" \in {valueAt(result, a).Value[k] : k \in 1..Len(valueAt(result, a).Value)}
       /\ valueAt(result, a).Value
            # itemValue(node.Content[firstSeen(node, keyAt(result, a).Value)])
  /\ \E a, b \in 1..pairCount(result) :
       a < b /\ StrLess(keyAt(result, b).Value, keyAt(result, a).Value)

\* C8: an `environment` sequence none of whose items is well-formed is left as it
\* was: the same sequence node with the same items, tags and styles.
C8_NothingParsedNothingChanged ==
  ( /\ pc = "normalized"
    /\ parentKey = environment
    /\ node.Kind = SequenceNode
    /\ \A i \in 1..Len(node.Content) : ~WellFormed(node.Content[i]) )
    => result = node

\* a list of malformed items only, one without '=' and one with an empty key
C8_Witness ==
  /\ pc = "normalized"
  /\ parentKey = environment
  /\ node.Kind = SequenceNode
  /\ \A i \in 1..Len(node.Content) : ~WellFormed(node.Content[i])
  /\ \E i, j \in 1..Len(node.Content) :
       /\ node.Content[i].Kind = ScalarNode /\ node.Content[j].Kind = ScalarNode
       /\ Index(node.Content[i].Value, "=") = -1
       /\ Index(node.Content[j].Value, "=") = 0
  /\ result.Kind = SequenceNode

\* the listed reasons to quote a value, with the given characters as whitespace
QuoteReason(value, whitespace) ==
  \/ value = <<>>
  \/ \E i \in 1..Len(value) : value[i] \in whitespace
  \/ ParseInt(value)
  \/ ParseFloat(value)
  \/ \E i \in 1..Len(value) : value[i] \in specialChars
  \/ (Len(value) > 0 /\ value[1] \in {"\"", "'"})
  \/ ToLower(value) \in yamlBools

\* every produced pair: key unquoted, both nodes tagged as strings, the value
\* double-quoted exactly when a listed reason holds and of the zero style otherwise
QuotedExactlyWhen(whitespace) ==
  EnvironmentNormalized =>
    \A a \in 1..pairCount(result) :
      /\ keyAt(result, a).Style = DefaultStyle
      /\ keyAt(result, a).Tag = strTag
      /\ valueAt(result, a).Tag = strTag
      /\ valueAt(result, a).Style =
           IF QuoteReason(valueAt(result, a).Value, whitespace) THEN DoubleQuotedStyle
           ELSE DefaultStyle

RECURSIVE commentsOf(_)
\* the non-empty comments attached to the nodes of a tree
commentsOf(n) ==
  ({n.HeadComment, n.LineComment, n.FootComment} \ {<<>>})
    \cup UNION {commentsOf(n.Content[i]) : i \in 1..Len(n.Content)}

\* C6: every non-empty head, line or foot comment attached to a node before the
\* walk is attached to a node after it, as it was or behind an injected newline,
\* the comments on the items of an `environment` or `ports` list included.
C6_CommentsPreserved ==
  pc = "normalized" =>
    \A c \in commentsOf(node) :
      \E d \in commentsOf(formatNodeWithContext(node, FALSE, parentKey)) :
        d = c \/ d = <<"\n">> \o c

\* a sequence under the key `ports` has been normalized
PortsNormalized ==
  /\ pc = "normalized"
  /\ parentKey = ports
  /\ node.Kind = SequenceNode

\* C10: under `ports`, a sequence keeps the number and order of its elements;
\* every scalar element is tagged as a string and double-quoted whatever its
\* content, with its text unchanged; a non-scalar element keeps its tag and style.
\* The same holds of the walker's visit of the node.
C10_PortsQuoted ==
  PortsNormalized =>
    /\ result.Kind = SequenceNode
    /\ Len(result.Content) = Len(node.Content)
    /\ \A i \in 1..Len(node.Content) :
         result.Content[i] =
           IF node.Content[i].Kind = ScalarNode
           THEN [node.Content[i] EXCEPT !.Tag = strTag, !.Style = DoubleQuotedStyle]
           ELSE node.Content[i]
    /\ With(formatNodeWithContext(node, FALSE, parentKey), LAMBDA walked :
         /\ walked.Kind = SequenceNode
         /\ Len(walked.Content) = Len(node.Content)
         /\ \A i \in 1..Len(node.Content) :
              /\ walked.Content[i].Kind = node.Content[i].Kind
              /\ walked.Content[i].Value = node.Content[i].Value
              /\ walked.Content[i].Tag =
                   IF node.Content[i].Kind = ScalarNode THEN strTag ELSE node.Content[i].Tag
              /\ walked.Content[i].Style =
                   IF node.Content[i].Kind = ScalarNode THEN DoubleQuotedStyle
                   ELSE node.Content[i].Style)

\* a list with a number, a single-quoted string and a long-syntax mapping: the
\* number is now a double-quoted string
C10_Witness ==
  /\ PortsNormalized
  /\ \E i, j, k \in 1..Len(node.Content) :
       /\ node.Content[i].Tag = intTag
       /\ result.Content[i].Tag = strTag
       /\ result.Content[i].Style = DoubleQuotedStyle
       /\ node.Content[j].Style = SingleQuotedStyle
       /\ result.Content[j].Style = DoubleQuotedStyle
       /\ node.Content[k].Kind = MappingNode
       /\ i < k

\* C11: the normalizer touches only sequences under `environment` or `ports`: a
\* node under any other key, and a mapping or a scalar under one of the two, comes
\* back with its kind, tag, style, value, comments and children as they were.
C11_NormalizerFrame ==
  ( /\ pc = "normalized"
    /\ \/ parentKey \notin {environment, ports}
       \/ node.Kind \in {MappingNode, ScalarNode} )
    => result = node

\* a list of KEY=VALUE items under a key that is not `environment`, left as it was
C11_Witness ==
  /\ pc = "normalized"
  /\ parentKey = other
  /\ node.Kind = SequenceNode
  /\ \E i \in 1..Len(node.Content) : WellFormed(node.Content[i])
  /\ result = node

-----------------------------------------------------------------------------
(* The encoder of gopkg.in/yaml.v3, on block mappings and block sequences of  *)
(* scalars.  Bytes are a sequence of characters.                              *)

spaces(n) == [i \in 1..n |-> " "]

RECURSIVE writeComment(_, _, _, _, _)
\* yaml_emitter_write_comment: the comment from byte i on, at the given column;
\* a line of the comment that does not start with '#' gets "# " in front
writeComment(comment, i, column, breaks, pound) ==
  IF i > Len(comment) THEN IF breaks THEN <<>> ELSE <<"\n">>
  ELSE IF comment[i] = "\n"
  THEN <<"\n">> \o writeComment(comment, i + 1, column, TRUE, FALSE)
  ELSE (IF breaks THEN spaces(column) ELSE <<>>)
         \o (IF ~pound /\ comment[i] # "#" THEN <<"#", " ">> ELSE <<>>)
         \o <<comment[i]>>
         \o writeComment(comment, i + 1, column, FALSE, TRUE)

\* yaml_emitter_process_head_comment: indentation, then the comment; the line
\* break at the head of a spacing comment ends a line that holds only the indentation
writeHeadComment(comment, column) ==
  IF comment = <<>> THEN <<>>
  ELSE spaces(column) \o writeComment(comment, 1, column, FALSE, FALSE)

\* yaml_emitter_process_line_comment
writeLineComment(comment) ==
  IF comment = <<>> THEN <<>> ELSE <<" ">> \o comment

isLetter(c) == \E i \in 1..26 : c \in {upperLetters[i], lowerLetters[i]}

boolTag == <<"!","!","b","o","o","l">>
nullTag == <<"!","!","n","u","l","l">>
floatTag == <<"!","!","f","l","o","a","t">>

\* resolve: the tag of a plain scalar
resolve(value) ==
  IF value = <<>> \/ value \in {<<"~">>, <<"n","u","l","l">>, <<"N","u","l","l">>, <<"N","U","L","L">>} THEN nullTag
  ELSE IF value \in {<<"t","r","u","e">>, <<"T","r","u","e">>, <<"T","R","U","E">>, <<"f","a","l","s","e">>, <<"F","a","l","s","e">>, <<"F","A","L","S","E">>} THEN boolTag
  ELSE IF ParseInt(value) THEN intTag
  ELSE IF isDigit(value[1]) \/ value[1] \in {"+", "-", "."}
  THEN IF ParseFloat(value) /\ (\A i \in 1..Len(value) : value[i] # "_")
            /\ (\E i \in 1..Len(value) : isDigit(value[i]))
       THEN floatTag ELSE strTag
  ELSE strTag

\* the bytes a plain scalar may hold anywhere
plainSafe(c) == isLetter(c) \/ isDigit(c) \/ c \in {".", "/", "_", "-", "+", "=", ":"}

\* yaml_emitter_analyze_scalar, on one-line text: a plain scalar must not be
\* empty, must start with a letter, a digit or one of . / _ + and must not hold
\* a space, a line break or an indicator; ':' and '-' are allowed inside a word
plainAllowed(value) ==
  /\ value # <<>>
  /\ \A i \in 1..Len(value) : plainSafe(value[i])
  /\ value[1] \notin {"-", "=", ":"}
  /\ value[Len(value)] # ":"

RECURSIVE escapeDouble(_)
\* the body of a double-quoted scalar
escapeDouble(value) ==
  IF value = <<>> THEN <<>>
  ELSE (CASE Head(value) = "\"" -> <<"\\", "\"">>
          [] Head(value) = "\\" -> <<"\\", "\\">>
          [] Head(value) = "\n" -> <<"\\", "n">>
          [] Head(value) = "\t" -> <<"\\", "t">>
          [] OTHER -> <<Head(value)>>) \o escapeDouble(Tail(value))

RECURSIVE escapeSingle(_)
\* the body of a single-quoted scalar
escapeSingle(value) ==
  IF value = <<>> THEN <<>>
  ELSE (IF Head(value) = "'" THEN <<"'", "'">> ELSE <<Head(value)>>)
         \o escapeSingle(Tail(value))

\* the style the encoder gives a scalar node: the node's own style, and for the
\* zero style a quoted one when the text read plain would not come back as the
\* node's tag, or cannot be written plain
emittedStyle(n) ==
  IF n.Style # DefaultStyle THEN n.Style
  ELSE IF n.Tag = strTag /\ resolve(n.Value) # strTag THEN DoubleQuotedStyle
  ELSE IF plainAllowed(n.Value) THEN DefaultStyle
  ELSE IF \A i \in 1..Len(n.Value) : n.Value[i] \notin {"\n", "\t"} THEN SingleQuotedStyle
  ELSE DoubleQuotedStyle

\* yaml_emitter_process_scalar
writeScalar(n) ==
  CASE emittedStyle(n) = DoubleQuotedStyle -> <<"\"">> \o escapeDouble(n.Value) \o <<"\"">>
    [] emittedStyle(n) = SingleQuotedStyle -> <<"'">> \o escapeSingle(n.Value) \o <<"'">>
    [] OTHER -> n.Value

RECURSIVE encodeNode(_, _, _)
RECURSIVE encodePairs(_, _, _, _)
RECURSIVE encodeItems(_, _, _, _)

\* the pairs of a block mapping from pair i on, keys at the given column
encodePairs(n, i, column, width) ==
  IF 2 * i > Len(n.Content) THEN <<>>
  ELSE LET k == n.Content[2 * i - 1]
           v == n.Content[2 * i]
       IN  writeHeadComment(k.HeadComment, column)
             \o spaces(column) \o writeScalar(k) \o <<":">>
             \o (IF v.Kind = ScalarNode
                 THEN <<" ">> \o writeScalar(v) \o writeLineComment(v.LineComment) \o <<"\n">>
                 ELSE writeLineComment(k.LineComment) \o <<"\n">>
                        \o encodeNode(v, column + width, width))
             \o encodePairs(n, i + 1, column, width)

\* the items of a block sequence from item i on, dashes at the given column
encodeItems(n, i, column, width) ==
  IF i > Len(n.Content) THEN <<>>
  ELSE LET it == n.Content[i]
       IN  writeHeadComment(it.HeadComment, column)
             \o spaces(column) \o <<"-", " ">> \o writeScalar(it)
             \o writeLineComment(it.LineComment) \o <<"\n">>
             \o encodeItems(n, i + 1, column, width)

encodeNode(n, column, width) ==
  IF n.Kind = DocumentNode THEN encodeNode(n.Content[1], column, width)
  ELSE IF n.Kind = MappingNode THEN encodePairs(n, 1, column, width)
  ELSE encodeItems(n, 1, column, width)

\* yaml.NewEncoder, SetIndent(indent), Encode(&root), Close
Encode(root, width) == encodeNode(root, 0, width)

-----------------------------------------------------------------------------
(* Lines of text, and the post-processing of the encoded bytes *)

RECURSIVE Split(_)
\* bytes.Split(data, "\n")
Split(data) ==
  With(Index(data, "\n"),
       LAMBDA idx :
         IF idx = -1 THEN <<data>>
         ELSE <<SubSeq(data, 1, idx)>>
                \o With(SubSeq(data, idx + 2, Len(data)), LAMBDA rest : Split(rest)))

RECURSIVE Join(_)
\* bytes.Join(lines, "\n")
Join(lines) ==
  IF lines = <<>> THEN <<>>
  ELSE IF Len(lines) = 1 THEN lines[1]
  ELSE lines[1] \o <<"\n">> \o With(Tail(lines), LAMBDA rest : Join(rest))

\* the ASCII white space of unicode.IsSpace, but the vertical tab
isSpace(c) == c \in {" ", "\t", "\n", "\f", "\r"}

RECURSIVE TrimLeft(_)
TrimLeft(s) == IF s # <<>> /\ isSpace(s[1]) THEN TrimLeft(Tail(s)) ELSE s

RECURSIVE TrimRight(_)
TrimRight(s) ==
  IF s # <<>> /\ isSpace(s[Len(s)]) THEN TrimRight(SubSeq(s, 1, Len(s) - 1)) ELSE s

\* bytes.TrimSpace
TrimSpace(s) == TrimRight(TrimLeft(s))

RECURSIVE leadingBlank(_, _)
\* the number of lines at the head of lines that hold white space only
leadingBlank(lines, start) ==
  IF start < Len(lines) /\ TrimSpace(lines[start + 1]) = <<>>
  THEN leadingBlank(lines, start + 1)
  ELSE start

\* a cleaning that keeps the white space of blank lines
cleanEmptyLines_keepsSpaces(data) ==
  With(Split(data),
       LAMBDA lines : Join(SubSeq(lines, leadingBlank(lines, 0) + 1, Len(lines))))

\* cleanEmptyLines: lines of white space become empty, leading empty lines go
cleanEmptyLines(data) ==
  With(Split(data),
       LAMBDA lines :
         With([i \in 1..Len(lines) |->
                 IF TrimSpace(lines[i]) = <<>> /\ Len(lines[i]) > 0 THEN <<>>
                 ELSE lines[i]],
              LAMBDA emptied :
                Join(SubSeq(emptied, leadingBlank(emptied, 0) + 1, Len(emptied)))))

-----------------------------------------------------------------------------
(* The parser of gopkg.in/yaml.v3, on the text the encoder writes *)

RECURSIVE indentOf(_)
indentOf(line) == IF line # <<>> /\ line[1] = " " THEN 1 + indentOf(Tail(line)) ELSE 0

bodyOf(line) == SubSeq(line, indentOf(line) + 1, Len(line))

isBlank(line) == bodyOf(line) = <<>>
isComment(line) == bodyOf(line) # <<>> /\ bodyOf(line)[1] = "#"
isItem(line) == Len(bodyOf(line)) >= 2 /\ bodyOf(line)[1] = "-" /\ bodyOf(line)[2] = " "

RECURSIVE readDouble(_, _, _)
\* a double-quoted scalar from byte i on, after the opening quote
readDouble(t, i, acc) ==
  IF i > Len(t) \/ t[i] = "\"" THEN [value |-> acc, next |-> i + 1]
  ELSE IF t[i] = "\\" /\ i < Len(t)
  THEN readDouble(t, i + 2,
                  Append(acc, CASE t[i + 1] = "n" -> "\n"
                                [] t[i + 1] = "t" -> "\t"
                                [] OTHER -> t[i + 1]))
  ELSE readDouble(t, i + 1, Append(acc, t[i]))

RECURSIVE readSingle(_, _, _)
\* a single-quoted scalar from byte i on, after the opening quote
readSingle(t, i, acc) ==
  IF i > Len(t) THEN [value |-> acc, next |-> i]
  ELSE IF t[i] = "'"
  THEN IF i < Len(t) /\ t[i + 1] = "'" THEN readSingle(t, i + 2, Append(acc, "'"))
       ELSE [value |-> acc, next |-> i + 1]
  ELSE readSingle(t, i + 1, Append(acc, t[i]))

RECURSIVE readPlain(_, _, _)
\* a plain scalar from byte i on: up to " #", to ": ", to a ':' that ends the
\* line when a key is read, or to the end of the line
readPlain(t, i, asKey) ==
  IF i > Len(t) THEN i
  ELSE IF t[i] = " " /\ i < Len(t) /\ t[i + 1] = "#" THEN i
  ELSE IF asKey /\ t[i] = ":" /\ (i = Len(t) \/ t[i + 1] = " ") THEN i
  ELSE readPlain(t, i + 1, asKey)

\* the scalar at the head of t: its node, and the place after it
readScalar(t, line, asKey) ==
  IF t # <<>> /\ t[1] = "\""
  THEN LET r == readDouble(t, 2, <<>>)
       IN  [node |-> Node(ScalarNode, strTag, DoubleQuotedStyle, r.value, line, <<>>),
            next |-> r.next]
  ELSE IF t # <<>> /\ t[1] = "'"
  THEN LET r == readSingle(t, 2, <<>>)
       IN  [node |-> Node(ScalarNode, strTag, SingleQuotedStyle, r.value, line, <<>>),
            next |-> r.next]
  ELSE LET end == readPlain(t, 1, asKey)
           value == TrimRight(SubSeq(t, 1, end - 1))
       IN  [node |-> Node(ScalarNode, resolve(value), DefaultStyle, value, line, <<>>),
            next |-> end]

\* a scalar with the line comment that follows it
scalarWithComment(t, line) ==
  LET r == readScalar(t, line, FALSE)
      rest == TrimLeft(SubSeq(t, r.next, Len(t)))
  IN  IF rest # <<>> /\ rest[1] = "#" THEN [r.node EXCEPT !.LineComment = rest]
      ELSE r.node

\* comment lines above a node, one per line of its head comment
addComment(pending, line) ==
  IF pending = <<>> THEN bodyOf(line) ELSE pending \o <<"\n">> \o bodyOf(line)

RECURSIVE firstContent(_, _)
\* the first line from i on that is neither blank nor a comment; 0 if none
firstContent(lines, i) ==
  IF i > Len(lines) THEN 0
  ELSE IF isBlank(lines[i]) \/ isComment(lines[i]) THEN firstContent(lines, i + 1)
  ELSE i

RECURSIVE parseBlock(_, _)
RECURSIVE parsePairs(_, _, _, _, _)
RECURSIVE parseItems(_, _, _, _, _)

\* the pairs of a block mapping whose keys stand at the given column
parsePairs(lines, i, column, pending, acc) ==
  IF i > Len(lines) THEN [content |-> acc, next |-> i]
  ELSE IF isBlank(lines[i]) THEN parsePairs(lines, i + 1, column, pending, acc)
  ELSE IF indentOf(lines[i]) < column \/ isItem(lines[i]) THEN [content |-> acc, next |-> i]
  ELSE IF isComment(lines[i])
  THEN parsePairs(lines, i + 1, column, addComment(pending, lines[i]), acc)
  ELSE With(readScalar(bodyOf(lines[i]), i, TRUE),
            LAMBDA k :
              LET key == [k.node EXCEPT !.HeadComment = pending, !.Tag = strTag]
                  rest == TrimLeft(SubSeq(bodyOf(lines[i]), k.next + 1,
                                          Len(bodyOf(lines[i]))))
                  below == firstContent(lines, i + 1)
              IN  IF (rest = <<>> \/ rest[1] = "#")
                     /\ below # 0 /\ indentOf(lines[below]) > column
                  THEN With(parseBlock(lines, i + 1),
                            LAMBDA child :
                              With(acc \o <<[key EXCEPT !.LineComment = rest], child.node>>,
                                   LAMBDA pairs :
                                     parsePairs(lines, child.next, column, <<>>, pairs)))
                  ELSE With(acc \o <<key, scalarWithComment(rest, i)>>,
                            LAMBDA pairs : parsePairs(lines, i + 1, column, <<>>, pairs)))

\* the items of a block sequence whose dashes stand at the given column
parseItems(lines, i, column, pending, acc) ==
  IF i > Len(lines) THEN [content |-> acc, next |-> i]
  ELSE IF isBlank(lines[i]) THEN parseItems(lines, i + 1, column, pending, acc)
  ELSE IF indentOf(lines[i]) < column THEN [content |-> acc, next |-> i]
  ELSE IF isComment(lines[i])
  THEN parseItems(lines, i + 1, column, addComment(pending, lines[i]), acc)
  ELSE IF ~isItem(lines[i]) THEN [content |-> acc, next |-> i]
  ELSE With(Append(acc, [scalarWithComment(SubSeq(bodyOf(lines[i]), 3,
                                                   Len(bodyOf(lines[i]))), i)
                           EXCEPT !.HeadComment = pending]),
            LAMBDA items : parseItems(lines, i + 1, column, <<>>, items))

\* the block that starts with the first content line from i on
parseBlock(lines, i) ==
  With(firstContent(lines, i),
       LAMBDA first :
         IF first = 0 THEN [node |-> Mapping(<<>>, i), next |-> Len(lines) + 1]
         ELSE With(indentOf(lines[first]),
                   LAMBDA column :
                     IF isItem(lines[first])
                     THEN With(parseItems(lines, i, column, <<>>, <<>>),
                               LAMBDA r : [node |-> Sequence(r.content, first),
                                           next |-> r.next])
                     ELSE With(parsePairs(lines, i, column, <<>>, <<>>),
                               LAMBDA r : [node |-> Mapping(r.content, first),
                                           next |-> r.next])))

\* yaml.Unmarshal(data, &root)
Parse(data) ==
  With(Split(data), LAMBDA lines : Document(<<parseBlock(lines, 1).node>>))

-----------------------------------------------------------------------------
(* The Format driver *)

\* the formatNode method of the formatter that hands it to FormatYAML
formatFunc(formatter, root, isRoot) ==
  CASE formatter = "docker-compose" -> formatNode(root, isRoot)
    [] formatter = "traefik" -> traefik_formatNode(root, isRoot)

\* BaseFormatter.FormatYAML: parse, walk from the root, encode with the indent
\* asked for, clean the encoded bytes
FormatYAML(data, width, formatter) ==
  With(Parse(data),
       LAMBDA root :
         With(formatFunc(formatter, root, TRUE),
              LAMBDA walked :
                With(Encode(walked, width), LAMBDA encoded : cleanEmptyLines(encoded))))

\* DockerComposeFormatter.Format
Format(data, width) == FormatYAML(data, width, "docker-compose")

\* TraefikFormatter.Format
traefik_Format(data, width) == FormatYAML(data, width, "traefik")

-----------------------------------------------------------------------------
(* Inputs of Format: documents of either kind *)

\* largest number of items of a list in an enumerated document
MaxDocItems == 2

Indents == {2, 4}

version == <<"v","e","r","s","i","o","n">>
entryPoints == <<"e","n","t","r","y","P","o","i","n","t","s">>

\* the keys of the root mapping of an enumerated document
RootKeys(p) ==
  IF p = "docker-compose" THEN {version, services, zeta} ELSE {entryPoints, http, zeta}

\* the item kinds of the `environment` list of an enumerated document
DocEnvKinds == {1, 2, 6, 8}

\* the `ports` lists of an enumerated document, by item kind
DocPortLists == {<<>>, <<9>>, <<10, 9>>, <<9, 11>>}

\* an optional pair of a mapping: none for an empty list
listPair(key, kinds, line) ==
  IF kinds = <<>> THEN <<>>
  ELSE <<Scalar(key, line),
         Sequence([i \in 1..Len(kinds) |-> item(kinds[i], line + i)], line + 1)>>

\* services: web with image, environment and ports, and db with image
servicesValue(envKinds, portKinds, line) ==
  Mapping(<<Scalar(<<"w","e","b">>, line + 1),
            Mapping(listPair(ports, portKinds, line + 2)
                      \o <<Scalar(image, line + 5), Scalar(<<"v">>, line + 5)>>
                      \o listPair(environment, envKinds, line + 6), line + 2),
            Scalar(<<"d","b">>, line + 10),
            Mapping(<<Scalar(image, line + 11), Scalar(<<"v">>, line + 11)>>, line + 11)>>,
          line + 1)

\* http: one service and one router, the keys of each out of order
httpValue(line) ==
  Mapping(<<Scalar(services, line + 1),
            Mapping(<<Scalar(<<"s">>, line + 2),
                      Mapping(<<Scalar(<<"l","o","a","d","B","a","l","a","n","c","e","r">>, line + 3), Scalar(<<"v">>, line + 3)>>,
                              line + 3)>>, line + 2),
            Scalar(routers, line + 4),
            Mapping(<<Scalar(<<"r">>, line + 5),
                      Mapping(<<Scalar(<<"s","e","r","v","i","c","e">>, line + 6), Scalar(<<"s">>, line + 6),
                                Scalar(<<"r","u","l","e">>, line + 7), Scalar(<<"x">>, line + 7)>>,
                              line + 6)>>, line + 5)>>,
          line + 1)

docValue(key, envKinds, portKinds, line) ==
  IF key = services THEN servicesValue(envKinds, portKinds, line)
  ELSE IF key = http THEN httpValue(line)
  ELSE IF key = version THEN Node(ScalarNode, strTag, DoubleQuotedStyle, <<"3">>, line, <<>>)
  ELSE Scalar(<<"v">>, line)

\* the document with the given root keys, the c-th of them under a head comment
\* (none for c = 0), pair i on line 20 * i
document(keys, c, envKinds, portKinds) ==
  Document(<<Mapping(
    [k \in 1..(2 * Len(keys)) |->
       LET i == (k + 1) \div 2
       IN  IF k % 2 = 1
           THEN [Scalar(keys[i], 20 * i) EXCEPT
                   !.HeadComment = IF i = c THEN commentText ELSE <<>>]
           ELSE docValue(keys[i], envKinds, portKinds, 20 * i)], 20)>>)

-----------------------------------------------------------------------------
(* Format, and Format on its own output *)

Init ==
  /\ profile \in Profiles
  /\ indent \in Indents
  /\ \E n \in 1..MaxPairs : \E keys \in [1..n -> RootKeys(profile)], c \in {0} \cup 2..n :
       /\ \A i, j \in 1..n : i # j => keys[i] # keys[j]
       /\ \E m \in 0..MaxDocItems : \E envKinds \in [1..m -> DocEnvKinds],
                                       portKinds \in DocPortLists :
            /\ (\A i \in 1..n : keys[i] # services) => (envKinds = <<>> /\ portKinds = <<>>)
            /\ profile = "traefik" => (envKinds = <<>> /\ portKinds = <<>>)
            /\ input = Encode(document(keys, c, envKinds, portKinds), defaultIndent)
  /\ pc = "format"
  /\ node = None
  /\ result = None
  /\ parentKey = None
  /\ isTopLevel = TRUE
  /\ doc = None
  /\ out1 = None
  /\ out2 = None
  /\ flags = None
  /\ fs = None
  /\ err = None
  /\ exitCode = None

\* the docker-compose formatter on the input
DockerFormat ==
  /\ pc = "format"
  /\ profile = "docker-compose"
  /\ doc' = formatNode(Parse(input), TRUE)
  /\ out1' = Format(input, indent)
  /\ pc' = "formatted"
  /\ UNCHANGED <<profile, node, parentKey, isTopLevel, result, indent, input, out2, flags, fs, err, exitCode>>

\* the traefik formatter on the input
TraefikFormat ==
  /\ pc = "format"
  /\ profile = "traefik"
  /\ doc' = traefik_formatNode(Parse(input), TRUE)
  /\ out1' = traefik_Format(input, indent)
  /\ pc' = "formatted"
  /\ UNCHANGED <<profile, node, parentKey, isTopLevel, result, indent, input, out2, flags, fs, err, exitCode>>

\* the docker-compose formatter on its own output
DockerFormatAgain ==
  /\ pc = "formatted"
  /\ profile = "docker-compose"
  /\ out2' = Format(out1, indent)
  /\ pc' = "done"
  /\ UNCHANGED <<profile, node, parentKey, isTopLevel, result, indent, input, doc, out1, flags, fs, err, exitCode>>

\* the traefik formatter on its own output
TraefikFormatAgain ==
  /\ pc = "formatted"
  /\ profile = "traefik"
  /\ out2' = traefik_Format(out1, indent)
  /\ pc' = "done"
  /\ UNCHANGED <<profile, node, parentKey, isTopLevel, result, indent, input, doc, out1, flags, fs, err, exitCode>>

Next == DockerFormat \/ TraefikFormat \/ DockerFormatAgain \/ TraefikFormatAgain

Spec == Init /\ [][Next]_vars

-----------------------------------------------------------------------------
(* Claims about Format, checked under Spec *)

\* C1: Format(Format(D), indent) equals Format(D, indent) byte for byte, for the
\* docker-compose and for the traefik formatter.
C1_Idempotent ==
  pc = "done" => out2 = out1

-----------------------------------------------------------------------------
(* Errors: the documents the parser rejects, and what Format returns *)

\* the text of the value on a line: what follows "- ", or what follows the key
valueText(line) ==
  IF isItem(line) THEN SubSeq(bodyOf(line), 3, Len(bodyOf(line)))
  ELSE With(readScalar(bodyOf(line), 1, TRUE),
            LAMBDA k : TrimLeft(SubSeq(bodyOf(line), k.next + 1, Len(bodyOf(line)))))

\* a value that opens a double-quoted scalar and does not close it on its line
opensQuote(line) ==
  With(valueText(line),
       LAMBDA t : /\ t # <<>>
                  /\ t[1] = "\""
                  /\ readDouble(t, 2, <<>>).next > Len(t) + 1)

\* the error of yaml.Unmarshal, "" for none: a tab where indentation is read, or
\* a double-quoted scalar that is open at the end of the stream
yamlError(data) ==
  With(Split(data),
       LAMBDA lines :
         IF \E i \in 1..Len(lines) : lines[i] # <<>> /\ lines[i][1] = "\t"
         THEN "yaml: found character that cannot start any token"
         ELSE IF \E i \in 1..Len(lines) :
                   /\ ~isBlank(lines[i]) /\ ~isComment(lines[i])
                   /\ opensQuote(lines[i])
                   /\ \A j \in (i + 1)..Len(lines) : Index(lines[j], "\"") = -1
         THEN "yaml: found unexpected end of stream"
         ELSE "")

\* yaml.Unmarshal(data, &root): the error and, without one, the tree
Unmarshal(data) ==
  With(yamlError(data),
       LAMBDA cause : IF cause # "" THEN [err |-> cause, root |-> None]
                      ELSE [err |-> "", root |-> Parse(data)])

\* the error values of Format: fmt.Errorf("...: %w", err)
Errorf(message, cause) == [message |-> message, wraps |-> cause]

\* a Format that hands back the bytes it has along with the error
FormatResult_bytesWithError(data, width, formatter, encodeErr) ==
  With(yamlError(data),
       LAMBDA cause :
         IF cause # ""
         THEN [bytes |-> data, err |-> Errorf("failed to parse YAML", cause)]
         ELSE [bytes |-> FormatYAML(data, width, formatter),
               err |-> IF encodeErr # "" THEN Errorf("failed to encode YAML", encodeErr)
                       ELSE None])

\* what Format returns, (bytes, error): encodeErr is the error of the encoder's
\* Encode, "" for none
FormatResult(data, width, formatter, encodeErr) ==
  With(yamlError(data),
       LAMBDA cause :
         IF cause # ""
         THEN [bytes |-> None, err |-> Errorf("failed to parse YAML", cause)]
         ELSE IF encodeErr # ""
         THEN [bytes |-> None, err |-> Errorf("failed to encode YAML", encodeErr)]
         ELSE [bytes |-> FormatYAML(data, width, formatter), err |-> None])

-----------------------------------------------------------------------------
(* Formatter selection: Name and CanHandle *)

\* strings.Contains
Contains(s, substr) ==
  \E i \in 0..(Len(s) - Len(substr)) : SubSeq(s, i + 1, i + Len(substr)) = substr

\* strings.HasSuffix
HasSuffix(s, suffix) ==
  Len(s) >= Len(suffix) /\ SubSeq(s, Len(s) - Len(suffix) + 1, Len(s)) = suffix

\* the registry of main, in its order; a formatter is known by its Name
formatters == <<"docker-compose", "traefik">>

\* the keys of the root mapping of a document, none if it has no root mapping
rootKeysOf(root) ==
  IF root.Kind = DocumentNode /\ Len(root.Content) > 0 /\ root.Content[1].Kind = MappingNode
  THEN {root.Content[1].Content[2 * i - 1].Value : i \in 1..(Len(root.Content[1].Content) \div 2)}
  ELSE {}

\* DockerComposeFormatter.CanHandle
CanHandle(filename, data) ==
  \/ Contains(filename, <<"d","o","c","k","e","r","-","c","o","m","p","o","s","e">>)
  \/ Contains(filename, <<"c","o","m","p","o","s","e",".">>)
  \/ HasSuffix(filename, <<"c","o","m","p","o","s","e",".","y","m","l">>)
  \/ HasSuffix(filename, <<"c","o","m","p","o","s","e",".","y","a","m","l">>)
  \/ With(Unmarshal(data),
          LAMBDA u : /\ u.err = ""
                     /\ rootKeysOf(u.root) \cap {services, version} # {})

\* TraefikFormatter.CanHandle
traefik_CanHandle(filename, data) ==
  \/ Contains(filename, <<"t","r","a","e","f","i","k">>)
  \/ With(Unmarshal(data),
          LAMBDA u : /\ u.err = ""
                     /\ rootKeysOf(u.root)
                          \cap {http, <<"t","c","p">>, <<"u","d","p">>, entryPoints, <<"p","r","o","v","i","d","e","r","s">>,
                                <<"c","e","r","t","i","f","i","c","a","t","e","s","R","e","s","o","l","v","e","r","s">>, <<"a","p","i">>} # {})

\* f.CanHandle(filename, data) for the formatter of the given name
canHandle(name, filename, data) ==
  IF name = "docker-compose" THEN CanHandle(filename, data)
  ELSE traefik_CanHandle(filename, data)

-----------------------------------------------------------------------------
(* main: one run of the command line *)

\* names of the input file: one per filename pattern, and one of no pattern
InputNames == {<<"d","o","c","k","e","r","-","c","o","m","p","o","s","e",".","y","m","l">>, <<"t","r","a","e","f","i","k",".","y","m","l">>, <<"a","p","p",".","y","m","l">>}

outputName == <<"o","u","t",".","y","m","l">>

\* values of the -type flag: none, the two formatters, and an unknown one
TypeFlags == {"", "docker-compose", "traefik", "nginx"}

\* the errors of the encoder's Encode a run can meet, "" for none
EncodeErrors == {"", "yaml: cannot encode node"}

\* a file that does not exist, and a file with the given bytes
noFile == [exists |-> FALSE, data |-> <<>>]
file(data) == [exists |-> TRUE, data |-> data]

\* a docker-compose document out of order, with an environment list
composeDoc == Encode(document(<<services, version>>, 0, <<2, 1>>, <<9>>), defaultIndent)

\* a traefik document out of order
traefikDoc == Encode(document(<<http, entryPoints>>, 0, <<>>, <<>>), defaultIndent)

\* a document neither formatter knows by its keys
plainDoc == Encode(document(<<zeta>>, 0, <<>>, <<>>), defaultIndent)

\* a document with a double-quoted scalar left open
brokenDoc == <<"v","e","r","s","i","o","n",":"," ","\"","3","\n">>

\* the contents of the input file: the documents above, and two that the
\* formatters return as they are
InputDocs ==
  {composeDoc, traefikDoc, plainDoc, brokenDoc,
   traefik_Format(traefikDoc, defaultIndent), Format(plainDoc, defaultIndent)}

InitMain ==
  /\ \E in \in InputNames \cup {<<>>}, out \in {<<>>, outputName},
        w \in BOOLEAN, check \in BOOLEAN, type \in TypeFlags :
       flags = [input |-> in, output |-> out, w |-> w, check |-> check, type |-> type]
  /\ indent \in Indents
  /\ \E inFile \in {noFile} \cup {file(d) : d \in InputDocs},
        outFile \in {noFile, file(<<"o","l","d","\n">>)} :
       fs = [name \in InputNames \cup {outputName} |->
               IF name = flags.input THEN inFile
               ELSE IF name = outputName THEN outFile
               ELSE noFile]
  /\ pc = "main"
  /\ profile = ""
  /\ input = None
  /\ out1 = None
  /\ err = None
  /\ exitCode = None
  /\ node = None
  /\ parentKey = None
  /\ isTopLevel = TRUE
  /\ result = None
  /\ doc = None
  /\ out2 = None

\* os.Exit(code), also the return from main
exit(code) ==
  /\ exitCode' = code
  /\ pc' = "exit"

\* -input is missing
InputFlagMissing ==
  /\ pc = "main"
  /\ flags.input = <<>>
  /\ exit(1)
  /\ UNCHANGED <<profile, node, parentKey, isTopLevel, result, indent, input, doc, out1,
                 out2, flags, fs, err>>

\* os.ReadFile fails
ReadFileFails ==
  /\ pc = "main"
  /\ flags.input # <<>>
  /\ ~fs[flags.input].exists
  /\ err' = Errorf("open", "no such file or directory")
  /\ exit(1)
  /\ UNCHANGED <<profile, node, parentKey, isTopLevel, result, indent, input, doc, out1,
                 out2, flags, fs>>

\* os.ReadFile
ReadFile ==
  /\ pc = "main"
  /\ flags.input # <<>>
  /\ fs[flags.input].exists
  /\ input' = fs[flags.input].data
  /\ pc' = "select"
  /\ UNCHANGED <<profile, node, parentKey, isTopLevel, result, indent, doc, out1, out2,
                 flags, fs, err, exitCode>>

\* -type names a formatter of the registry
SelectByType ==
  /\ pc = "select"
  /\ flags.type # ""
  /\ \E i \in 1..Len(formatters) : formatters[i] = flags.type
  /\ profile' = flags.type
  /\ pc' = "format"
  /\ UNCHANGED <<node, parentKey, isTopLevel, result, indent, input, doc, out1, out2,
                 flags, fs, err, exitCode>>

\* -type names no formatter
SelectByTypeFails ==
  /\ pc = "select"
  /\ flags.type # ""
  /\ \A i \in 1..Len(formatters) : formatters[i] # flags.type
  /\ exit(1)
  /\ UNCHANGED <<profile, node, parentKey, isTopLevel, result, indent, input, doc, out1,
                 out2, flags, fs, err>>

\* an auto-detection that keeps the last formatter of the registry that can handle
\* the file
AutoDetect_lastMatch ==
  /\ pc = "select"
  /\ flags.type = ""
  /\ \E i \in 1..Len(formatters) :
       /\ canHandle(formatters[i], flags.input, input)
       /\ \A j \in (i + 1)..Len(formatters) : ~canHandle(formatters[j], flags.input, input)
       /\ profile' = formatters[i]
  /\ pc' = "format"
  /\ UNCHANGED <<node, parentKey, isTopLevel, result, indent, input, doc, out1, out2,
                 flags, fs, err, exitCode>>

\* auto-detection: the first formatter of the registry that can handle the file
AutoDetect ==
  /\ pc = "select"
  /\ flags.type = ""
  /\ \E i \in 1..Len(formatters) :
       /\ canHandle(formatters[i], flags.input, input)
       /\ \A j \in 1..(i - 1) : ~canHandle(formatters[j], flags.input, input)
       /\ profile' = formatters[i]
  /\ pc' = "format"
  /\ UNCHANGED <<node, parentKey, isTopLevel, result, indent, input, doc, out1, out2,
                 flags, fs, err, exitCode>>

\* auto-detection finds no formatter
AutoDetectFails ==
  /\ pc = "select"
  /\ flags.type = ""
  /\ \A i \in 1..Len(formatters) : ~canHandle(formatters[i], flags.input, input)
  /\ exit(1)
  /\ UNCHANGED <<profile, node, parentKey, isTopLevel, result, indent, input, doc, out1,
                 out2, flags, fs, err>>

\* a call of Format whose error is not tested
CallFormat_ignoresError ==
  /\ pc = "format"
  /\ \E encodeErr \in EncodeErrors :
       \E r \in {FormatResult(input, indent, profile, encodeErr)} :
         /\ out1' = r.bytes
         /\ err' = r.err
  /\ pc' = IF flags.check THEN "check" ELSE "output"
  /\ UNCHANGED <<profile, node, parentKey, isTopLevel, result, indent, input, doc, out2,
                 flags, fs, exitCode>>

\* selectedFormatter.Format(data, *indent) and the test of its error
CallFormat ==
  /\ pc = "format"
  /\ \E encodeErr \in EncodeErrors :
       \E r \in {FormatResult(input, indent, profile, encodeErr)} :
         /\ out1' = r.bytes
         /\ err' = r.err
         /\ IF r.err # None THEN exit(1)
            ELSE /\ pc' = IF flags.check THEN "check" ELSE "output"
                 /\ UNCHANGED exitCode
  /\ UNCHANGED <<profile, node, parentKey, isTopLevel, result, indent, input, doc, out2,
                 flags, fs>>

\* a check mode that goes on to the output once the file is found unformatted
Check_thenOutput ==
  /\ pc = "check"
  /\ IF input # out1 THEN pc' = "output" /\ UNCHANGED exitCode ELSE exit(0)
  /\ UNCHANGED <<profile, node, parentKey, isTopLevel, result, indent, input, doc, out1,
                 out2, flags, fs, err>>

\* check mode: the comparison of the input with the formatted bytes
Check ==
  /\ pc = "check"
  /\ exit(IF input # out1 THEN 1 ELSE 0)
  /\ UNCHANGED <<profile, node, parentKey, isTopLevel, result, indent, input, doc, out1,
                 out2, flags, fs, err>>

\* the output destination: the input file with -w, else the -output file, else none
outputOf(f) == IF f.w THEN f.input ELSE f.output

\* os.WriteFile(output, formatted, 0644)
WriteFile ==
  /\ pc = "output"
  /\ outputOf(flags) # <<>>
  /\ fs' = [fs EXCEPT ![outputOf(flags)] = file(out1)]
  /\ exit(0)
  /\ UNCHANGED <<profile, node, parentKey, isTopLevel, result, indent, input, doc, out1,
                 out2, flags, err>>

\* os.WriteFile fails: the file was not opened, or was truncated and not written
WriteFileFails ==
  /\ pc = "output"
  /\ outputOf(flags) # <<>>
  /\ \E left \in {fs[outputOf(flags)], file(<<>>)} :
       fs' = [fs EXCEPT ![outputOf(flags)] = left]
  /\ err' = Errorf("open", "permission denied or short write")
  /\ exit(1)
  /\ UNCHANGED <<profile, node, parentKey, isTopLevel, result, indent, input, doc, out1,
                 out2, flags>>

\* no destination: the formatted bytes go to the standard output
PrintFormatted ==
  /\ pc = "output"
  /\ outputOf(flags) = <<>>
  /\ exit(0)
  /\ UNCHANGED <<profile, node, parentKey, isTopLevel, result, indent, input, doc, out1,
                 out2, flags, fs, err>>

NextMain ==
  \/ InputFlagMissing \/ ReadFileFails \/ ReadFile
  \/ SelectByType \/ SelectByTypeFails \/ AutoDetect \/ AutoDetectFails
  \/ CallFormat \/ Check \/ WriteFile \/ WriteFileFails \/ PrintFormatted

SpecMain == InitMain /\ [][NextMain]_vars

-----------------------------------------------------------------------------
(* Claims about Format's errors and about main, checked under SpecMain *)

\* the run has returned from the call of Format
FormatCalled == profile # "" /\ pc \in {"check", "output", "exit"}

\* an error that Format returned
FormatError(e) ==
  e # None /\ e.message \in {"failed to parse YAML", "failed to encode YAML"}

\* C14: Format fails atomically.  A parse failure yields an error that wraps the
\* parser's cause, an encode failure yields an error, and in both the bytes are
\* nil; without a failure the error is nil and the bytes are the formatted ones.
C14_FormatAtomic ==
  FormatCalled =>
    /\ (yamlError(input) # "" => err = Errorf("failed to parse YAML", yamlError(input)))
    /\ IF FormatError(err)
       THEN /\ out1 = None
            /\ err.wraps # ""
            /\ err.message = "failed to parse YAML" => err.wraps = yamlError(input)
       ELSE /\ out1 = FormatYAML(input, indent, profile)
            /\ out1 # None
    /\ pc \in {"check", "output"} => err = None

\* a run whose input has a double-quoted scalar left open: Format returned the
\* wrapped parser error and no bytes
C14_Witness ==
  /\ FormatCalled
  /\ err = Errorf("failed to parse YAML", "yaml: found unexpected end of stream")
  /\ out1 = None
  /\ input = brokenDoc

\* a run in check mode has exited after a Format without error
CheckDone ==
  /\ pc = "exit"
  /\ flags.check
  /\ FormatCalled
  /\ ~FormatError(err)

\* C15: in check mode, after a successful Format, the exit status is 0 exactly
\* when the formatted bytes are the input bytes and 1 otherwise, and no step of a
\* run in check mode changes a file, whatever -w and -output say.
C15_CheckMode ==
  /\ [](CheckDone => exitCode = IF out1 = input THEN 0 ELSE 1)
  /\ [][flags.check => fs' = fs]_vars

\* a check, with -w and -output given, of a file that is not formatted: status 1,
\* the input file as it was and the output file not created
C15_Witness ==
  /\ CheckDone
  /\ flags.w
  /\ flags.output = outputName
  /\ out1 # input
  /\ exitCode = 1
  /\ fs[flags.input] = file(input)
  /\ fs[outputName] = noFile

\* the run has exited on a failure to read the input, to select a formatter or
\* to format
FailedBeforeOutput ==
  /\ pc = "exit"
  /\ flags.input # <<>>
  /\ profile = "" \/ FormatError(err)

\* C16: a run in which reading the input, selecting a formatter or Format fails
\* exits with status 1; a file changes only in the output step, which is reached
\* only after Format returned without error, and a write that succeeds leaves
\* exactly the bytes Format returned in the destination and nothing else changed.
C16_WriteOnlyAfterFormat ==
  /\ [](FailedBeforeOutput => exitCode = 1)
  /\ [](pc = "output" => /\ FormatCalled
                         /\ err = None
                         /\ out1 = FormatYAML(input, indent, profile))
  /\ [][fs' # fs =>
          /\ pc = "output"
          /\ outputOf(flags) # <<>>
          /\ \A name \in DOMAIN fs : name # outputOf(flags) => fs'[name] = fs[name]
          /\ exitCode' = 0 => fs'[outputOf(flags)] = file(out1)]_vars

\* a run with -w and -output whose Format failed: status 1, the input file as it
\* was read and the output file as it was
C16_Witness ==
  /\ FailedBeforeOutput
  /\ FormatError(err)
  /\ flags.w
  /\ flags.output = outputName
  /\ exitCode = 1
  /\ fs[flags.input] = file(input)
  /\ fs[outputName] = file(<<"o","l","d","\n">>)


-----------------------------------------------------------------------------
(* Concurrent calls of Format.  Each call holds its own input, indent, tree and
   buffer (the locals of Format); the formatter object has no field and the
   ordering tables are map literals built inside each call of getKeyOrder, so
   they are the constant tables above.  In this specification input, indent,
   pc, doc, out1 and err are functions over the calls. *)

Calls == {1, 2}

\* the inputs of the concurrent calls
ConcDocs == {composeDoc, traefikDoc, brokenDoc}

InitConc ==
  /\ profile \in Profiles
  /\ input \in [Calls -> ConcDocs]
  /\ indent \in [Calls -> Indents]
  /\ pc = [i \in Calls |-> "parse"]
  /\ doc = [i \in Calls |-> None]
  /\ out1 = [i \in Calls |-> None]
  /\ err = [i \in Calls |-> None]
  /\ node = None
  /\ parentKey = None
  /\ isTopLevel = TRUE
  /\ result = None
  /\ out2 = None
  /\ flags = None
  /\ fs = None
  /\ exitCode = None

\* yaml.Unmarshal(data, &root) of call i, and the return on its error
ParseStep(i) ==
  /\ pc[i] = "parse"
  /\ \E r \in {Unmarshal(input[i])} :
       IF r.err # ""
       THEN /\ err' = [err EXCEPT ![i] = Errorf("failed to parse YAML", r.err)]
            /\ pc' = [pc EXCEPT ![i] = "done"]
            /\ UNCHANGED doc
       ELSE /\ doc' = [doc EXCEPT ![i] = r.root]
            /\ pc' = [pc EXCEPT ![i] = "walk"]
            /\ UNCHANGED err
  /\ UNCHANGED <<profile, node, parentKey, isTopLevel, result, indent, input, out1, out2,
                 flags, fs, exitCode>>

\* a walk that leaves its tree in the root of every call that is between parse
\* and encode, as if the root were shared
WalkStep_sharedRoot(i) ==
  /\ pc[i] = "walk"
  /\ \E walked \in {formatFunc(profile, doc[i], TRUE)} :
       doc' = [j \in Calls |-> IF j = i \/ pc[j] \in {"walk", "encode"} THEN walked
                               ELSE doc[j]]
  /\ pc' = [pc EXCEPT ![i] = "encode"]
  /\ UNCHANGED <<profile, node, parentKey, isTopLevel, result, indent, input, out1, out2,
                 flags, fs, err, exitCode>>

\* formatNode(&root, true) of call i
WalkStep(i) ==
  /\ pc[i] = "walk"
  /\ doc' = [doc EXCEPT ![i] = formatFunc(profile, doc[i], TRUE)]
  /\ pc' = [pc EXCEPT ![i] = "encode"]
  /\ UNCHANGED <<profile, node, parentKey, isTopLevel, result, indent, input, out1, out2,
                 flags, fs, err, exitCode>>

\* encoder.SetIndent(indent); encoder.Encode(&root) of call i
EncodeStep(i) ==
  /\ pc[i] = "encode"
  /\ out1' = [out1 EXCEPT ![i] = Encode(doc[i], indent[i])]
  /\ pc' = [pc EXCEPT ![i] = "clean"]
  /\ UNCHANGED <<profile, node, parentKey, isTopLevel, result, indent, input, doc, out2,
                 flags, fs, err, exitCode>>

\* cleanEmptyLines(buf.Bytes()) of call i and the return of the result
CleanStep(i) ==
  /\ pc[i] = "clean"
  /\ out1' = [out1 EXCEPT ![i] = cleanEmptyLines(out1[i])]
  /\ pc' = [pc EXCEPT ![i] = "done"]
  /\ UNCHANGED <<profile, node, parentKey, isTopLevel, result, indent, input, doc, out2,
                 flags, fs, err, exitCode>>

NextConc ==
  \E i \in Calls : ParseStep(i) \/ WalkStep(i) \/ EncodeStep(i) \/ CleanStep(i)

SpecConc == InitConc /\ [][NextConc]_vars

-----------------------------------------------------------------------------
(* Inputs of the tree walk: documents with lists inside lists, mappings inside
   lists, aliases, and the empty and the nil document *)

\* a scalar of a list: a port number, or a KEY=VALUE string
walkLeaf(kind, line) ==
  IF kind = "port" THEN Node(ScalarNode, intTag, DefaultStyle, <<"8","0">>, line, <<>>)
  ELSE Scalar(<<"A","=","1">>, line)

LeafKinds == {"port", "env"}

\* an alias node: yaml.v3 keeps the anchored node in the field Alias and leaves
\* Content empty
aliasNode(target, line) ==
  Node(AliasNode, <<>>, DefaultStyle, <<"a">>, line, <<>>) @@ [Alias |-> target]

WalkShapes == 0..6

\* the value under a key: a scalar, a list, a list in a list, a list in a list next
\* to a scalar, a list under a key of a mapping, the same inside a list, an alias of
\* a list
walkValue(shape, leaf, line) ==
  CASE shape = 0 -> walkLeaf(leaf, line)
    [] shape = 1 -> Sequence(<<walkLeaf(leaf, line + 1), Scalar(<<"o","k">>, line + 2)>>, line + 1)
    [] shape = 2 -> Sequence(<<Sequence(<<walkLeaf(leaf, line + 1)>>, line + 1)>>, line + 1)
    [] shape = 3 -> Sequence(<<Sequence(<<walkLeaf(leaf, line + 1)>>, line + 1),
                               walkLeaf(leaf, line + 2)>>, line + 1)
    [] shape = 4 -> Mapping(<<Scalar(<<"x">>, line + 1),
                              Sequence(<<walkLeaf(leaf, line + 2)>>, line + 2)>>, line + 1)
    [] shape = 5 -> Sequence(<<Mapping(<<Scalar(<<"x">>, line + 1),
                                         Sequence(<<walkLeaf(leaf, line + 2)>>, line + 2)>>,
                                       line + 1)>>, line + 1)
    [] shape = 6 -> Sequence(<<aliasNode(Sequence(<<walkLeaf(leaf, 90)>>, 90), line + 1)>>,
                             line + 1)

\* number of entries of the service of an enumerated document
MaxWalkEntries == 1

\* the entries of a mapping: entry i holds the value of its shape under its key, with
\* a head comment on the key if asked for
walkEntries(es) ==
  [k \in 1..(2 * Len(es)) |->
     LET e == es[(k + 1) \div 2]
         line == 10 * ((k + 1) \div 2)
     IN  IF k % 2 = 1
         THEN [Scalar(e.key, line) EXCEPT
                 !.HeadComment = IF e.commented THEN commentText ELSE <<>>]
         ELSE walkValue(e.shape, e.leaf, line)]

\* a compose document: services first, with a service `web` of the given entries and
\* a service `db`, then `version`
serviceDocument(es) ==
  Document(<<Mapping(<<Scalar(services, 2),
                       Mapping(<<Scalar(web, 3), Mapping(walkEntries(es), 10),
                                 Scalar(<<"d","b">>, 70),
                                 Mapping(<<Scalar(image, 71), Scalar(<<"v">>, 71)>>, 71)>>, 3),
                       Scalar(<<"v","e","r","s","i","o","n">>, 80), Scalar(<<"3">>, 80)>>, 2)>>)

\* a compose document of two services and two root keys; the second service and the
\* second root key have a head comment if asked for
spacingDocument(c1, c2) ==
  Document(<<Mapping(<<Scalar(services, 2),
                       Mapping(<<Scalar(web, 3),
                                 Mapping(<<Scalar(image, 4), Scalar(<<"v">>, 4)>>, 4),
                                 [Scalar(<<"d","b">>, 70) EXCEPT
                                    !.HeadComment = IF c1 THEN commentText ELSE <<>>],
                                 Mapping(<<Scalar(image, 71), Scalar(<<"v">>, 71)>>, 71)>>, 3),
                       [Scalar(<<"v","e","r","s","i","o","n">>, 80) EXCEPT
                          !.HeadComment = IF c2 THEN commentText ELSE <<>>],
                       Scalar(<<"3">>, 80)>>, 2)>>)

\* a document whose root mapping holds the entries themselves
rootDocument(es) == Document(<<Mapping(walkEntries(es), 10)>>)

WalkEntry ==
  [key : ParentKeys, shape : WalkShapes, leaf : LeafKinds, commented : BOOLEAN]

-----------------------------------------------------------------------------
(* The tree walk on its own: formatNode on a parsed document, then on the tree it
   left, as often as wanted *)

InitWalk ==
  /\ profile \in Profiles
  /\ \/ \E n \in 0..MaxWalkEntries : \E es \in [1..n -> WalkEntry] :
          node \in {serviceDocument(es), rootDocument(es)}
     \/ \E shape \in WalkShapes, leaf \in LeafKinds :
          node = Document(<<walkValue(shape, leaf, 1)>>)
     \/ \E c1 \in BOOLEAN, c2 \in BOOLEAN : node = spacingDocument(c1, c2)
     \/ node = Document(<<>>)
     \/ node = None
  /\ pc = "walk"
  /\ result = node
  /\ doc = None
  /\ parentKey = None
  /\ isTopLevel = TRUE
  /\ input = None
  /\ out1 = None
  /\ out2 = None
  /\ indent = defaultIndent
  /\ flags = None
  /\ fs = None
  /\ err = None
  /\ exitCode = None

\* f.formatNode(&root, true) of the docker-compose formatter
DockerWalk ==
  /\ pc = "walk"
  /\ profile = "docker-compose"
  /\ result' = formatNode(node, TRUE)
  /\ pc' = "walked"
  /\ UNCHANGED <<profile, node, parentKey, isTopLevel, indent, input, doc, out1, out2,
                 flags, fs, err, exitCode>>

\* f.formatNode(&root, true) of the traefik formatter
TraefikWalk ==
  /\ pc = "walk"
  /\ profile = "traefik"
  /\ result' = traefik_formatNode(node, TRUE)
  /\ pc' = "walked"
  /\ UNCHANGED <<profile, node, parentKey, isTopLevel, indent, input, doc, out1, out2,
                 flags, fs, err, exitCode>>

\* one more walk over the tree the last one left; doc keeps the tree before it
WalkAgain ==
  /\ pc \in {"walked", "rewalked"}
  /\ doc' = result
  /\ result' = formatFunc(profile, result, TRUE)
  /\ pc' = "rewalked"
  /\ UNCHANGED <<profile, node, parentKey, isTopLevel, indent, input, out1, out2,
                 flags, fs, err, exitCode>>

NextWalk == DockerWalk \/ TraefikWalk \/ WalkAgain

SpecWalk == InitWalk /\ [][NextWalk]_vars


-----------------------------------------------------------------------------
(* Claims about the tree walk, checked under SpecWalk *)

RECURSIVE pathsOf(_)
\* the places of the nodes reachable through Content, each the list of the Content
\* indices that lead to it
pathsOf(n) ==
  IF n = None THEN {}
  ELSE {<<>>} \cup UNION {{<<i>> \o p : p \in pathsOf(n.Content[i])} : i \in 1..Len(n.Content)}

RECURSIVE nodeAt(_, _)
nodeAt(n, p) == IF p = <<>> THEN n ELSE nodeAt(n.Content[Head(p)], Tail(p))

RECURSIVE nearestKey(_, _, _)
\* the key of the nearest mapping entry that encloses the node at the given place,
\* empty when there is none
nearestKey(n, p, key) ==
  IF p = <<>> THEN key
  ELSE nearestKey(n.Content[Head(p)], Tail(p),
                  IF n.Kind = MappingNode /\ Head(p) % 2 = 0
                  THEN n.Content[Head(p) - 1].Value
                  ELSE key)

Front(p) == SubSeq(p, 1, Len(p) - 1)

\* C24: the docker-compose walk normalizes a node under the key of the nearest
\* enclosing mapping entry, through any depth of sequences, and under the empty key
\* at the document and the root: in the walked tree a scalar item of a sequence is a
\* double-quoted string exactly when that key is `ports`, no sequence whose key is
\* `environment` is left with a KEY=VALUE item, and a mapping made by the
\* environment normalizer stands only where that key is `environment`.
C24_ContextPropagation ==
  (pc = "walked" /\ profile = "docker-compose") =>
    \A p \in pathsOf(result) :
      \A n \in {nodeAt(result, p)}, key \in {nearestKey(result, p, <<>>)} :
        /\ (n.Kind = ScalarNode /\ p # <<>> /\ nodeAt(result, Front(p)).Kind = SequenceNode)
             => /\ (n.Style = DoubleQuotedStyle /\ n.Tag = strTag) <=> key = ports
                /\ key # ports => n.Style = DefaultStyle
        /\ (n.Kind = SequenceNode /\ key = environment)
             => \A i \in 1..Len(n.Content) :
                  n.Content[i].Kind = ScalarNode => ~parseEnvVar(n.Content[i].Value).ok
        /\ (n.Kind = MappingNode /\ \E i \in 1..Len(n.Content) : n.Content[i].Line = 0)
             => key = environment

\* a list inside the `ports` list of a service, its item quoted by the walk
C24_Witness ==
  /\ pc = "walked"
  /\ profile = "docker-compose"
  /\ \E p \in pathsOf(result) :
       /\ Len(p) >= 2
       /\ nearestKey(result, p, <<>>) = ports
       /\ nodeAt(result, p).Kind = ScalarNode
       /\ nodeAt(result, Front(p)).Kind = SequenceNode
       /\ nodeAt(result, Front(Front(p))).Kind = SequenceNode
       /\ nodeAt(result, p).Style = DoubleQuotedStyle
       /\ nodeAt(node, <<1, 1>>).Value = services


RECURSIVE visits(_, _, _, _)
\* a walk that goes through the children of a mapping a second time, in the loop
\* meant for the other kinds
visits_bothLoops(n, isRoot, key, p) ==
  IF n = None THEN <<>>
  ELSE With(normalizeValues(IF n.Kind = MappingNode THEN sortMappingNode(n, isRoot) ELSE n,
                            key),
            LAMBDA normal :
              <<p>> \o
              ( IF isRoot /\ normal.Kind = DocumentNode /\ Len(normal.Content) > 0
                THEN visits(normal.Content[1], TRUE, <<>>, p \o <<1>>)
                ELSE (IF normal.Kind = MappingNode
                      THEN concat([i \in 1..Len(normal.Content) |->
                                     IF i % 2 = 0
                                     THEN visits(normal.Content[i], FALSE,
                                                 normal.Content[i - 1].Value, p \o <<i>>)
                                     ELSE <<>>])
                      ELSE <<>>)
                     \o concat([i \in 1..Len(normal.Content) |->
                                  visits(normal.Content[i], FALSE, key, p \o <<i>>)]) ))

\* the calls of formatNodeWithContext on a node that is not nil, in the order they
\* are made, each named by the place of its node in the tree the walk leaves
visits(n, isRoot, key, p) ==
  IF n = None THEN <<>>
  ELSE With(normalizeValues(IF n.Kind = MappingNode THEN sortMappingNode(n, isRoot) ELSE n,
                            key),
            LAMBDA normal :
              <<p>> \o
              ( IF isRoot /\ normal.Kind = DocumentNode /\ Len(normal.Content) > 0
                THEN visits(normal.Content[1], TRUE, <<>>, p \o <<1>>)
                ELSE IF normal.Kind = MappingNode
                THEN concat([i \in 1..Len(normal.Content) |->
                               IF i % 2 = 0
                               THEN visits(normal.Content[i], FALSE,
                                           normal.Content[i - 1].Value, p \o <<i>>)
                               ELSE <<>>])
                ELSE concat([i \in 1..Len(normal.Content) |->
                               visits(normal.Content[i], FALSE, key, p \o <<i>>)]) ))

RECURSIVE traefik_visits(_, _, _)
\* the same for the calls of formatNode of the traefik formatter
traefik_visits(n, isRoot, p) ==
  IF n = None THEN <<>>
  ELSE With(IF n.Kind = MappingNode THEN traefik_sortMappingNode(n, isRoot) ELSE n,
            LAMBDA sorted :
              <<p>> \o
              ( IF isRoot /\ sorted.Kind = DocumentNode /\ Len(sorted.Content) > 0
                THEN traefik_visits(sorted.Content[1], TRUE, p \o <<1>>)
                ELSE concat([i \in 1..Len(sorted.Content) |->
                               traefik_visits(sorted.Content[i], FALSE, p \o <<i>>)]) ))

\* the calls of the walk that produced result from node
walkVisits ==
  IF profile = "docker-compose" THEN visits(node, TRUE, <<>>, <<>>)
  ELSE traefik_visits(node, TRUE, <<>>)

\* the key nodes of the mappings of a tree, which the docker-compose walk passes over
keyPaths(n) ==
  {p \in pathsOf(n) : p # <<>> /\ nodeAt(n, Front(p)).Kind = MappingNode
                               /\ p[Len(p)] % 2 = 1}

\* C26: the walk ends after finitely many calls: on a nil node it makes none and
\* returns; otherwise it calls itself on no node twice, only on nodes reachable
\* through Content in the tree it leaves (the children put in by the environment
\* normalizer, not the ones it replaced), on every such node for the traefik
\* formatter and on every one but the keys of mappings for the docker-compose
\* formatter; the target of an alias is left as it was.
C26_WalkTerminates ==
  pc = "walked" =>
    \A vs \in {walkVisits} :
      /\ node = None => (vs = <<>> /\ result = None)
      /\ \A i, j \in 1..Len(vs) : i # j => vs[i] # vs[j]
      /\ Range(vs) \subseteq pathsOf(result)
      /\ Range(vs) = IF profile = "docker-compose" THEN pathsOf(result) \ keyPaths(result)
                     ELSE pathsOf(result)
      /\ \A p \in pathsOf(result) :
           nodeAt(result, p).Kind = AliasNode =>
             \E q \in pathsOf(node) : nodeAt(node, q) = nodeAt(result, p)

\* a service whose `environment` list was replaced by a mapping: the walk went on
\* into a child the normalizer made, and called itself on no node twice
C26_Witness ==
  /\ pc = "walked"
  /\ profile = "docker-compose"
  /\ \E p \in Range(walkVisits) :
       /\ nodeAt(result, p).Line = 0
       /\ nearestKey(result, Front(p), <<>>) = environment
  /\ Cardinality(Range(walkVisits)) = Len(walkVisits)
  /\ Len(walkVisits) > 8


-----------------------------------------------------------------------------
(* cleanEmptyLines on its own, over every short text *)

\* the bytes of the enumerated texts
CleanBytes == {"a", " ", "\t", "\r", "\n"}

\* length of the longest enumerated text
MaxCleanLen == 5

InitClean ==
  /\ \E n \in 0..MaxCleanLen : input \in [1..n -> CleanBytes]
  /\ pc = "clean"
  /\ profile = ""
  /\ node = None
  /\ result = None
  /\ parentKey = None
  /\ isTopLevel = TRUE
  /\ doc = None
  /\ out1 = None
  /\ out2 = None
  /\ indent = defaultIndent
  /\ flags = None
  /\ fs = None
  /\ err = None
  /\ exitCode = None

\* cleanEmptyLines(data)
Clean ==
  /\ pc = "clean"
  /\ out1' = cleanEmptyLines(input)
  /\ pc' = "cleaned"
  /\ UNCHANGED <<profile, node, parentKey, isTopLevel, result, indent, input, doc, out2,
                 flags, fs, err, exitCode>>

\* cleanEmptyLines on what it returned
CleanAgain ==
  /\ pc = "cleaned"
  /\ out2' = cleanEmptyLines(out1)
  /\ pc' = "done"
  /\ UNCHANGED <<profile, node, parentKey, isTopLevel, result, indent, input, doc, out1,
                 flags, fs, err, exitCode>>

NextClean == Clean \/ CleanAgain

SpecClean == InitClean /\ [][NextClean]_vars

\* the lines of a text: the runs of bytes between its newlines
linesOf(data) ==
  LET breaks == <<0>> \o SelectSeq([i \in 1..Len(data) |-> IF data[i] = "\n" THEN i ELSE 0],
                                   LAMBDA i : i > 0) \o <<Len(data) + 1>>
  IN  [k \in 1..(Len(breaks) - 1) |-> SubSeq(data, breaks[k] + 1, breaks[k + 1] - 1)]

\* a line without a byte that is not white space
blankLine(line) == \A i \in 1..Len(line) : line[i] \in {" ", "\t", "\r"}

\* the number of blank lines ahead of the first line that is not blank
blankHead(lines) ==
  IF \A i \in 1..Len(lines) : blankLine(lines[i]) THEN Len(lines)
  ELSE (CHOOSE i \in 1..Len(lines) :
          ~blankLine(lines[i]) /\ \A j \in 1..(i - 1) : blankLine(lines[j])) - 1

\* C27: cleanEmptyLines drops the blank lines ahead of the first line that is not
\* blank (every line, if all are blank), makes every later blank line empty without
\* dropping it, keeps every other line byte for byte and in its place, and returns
\* its own output unchanged.
C27_CleanOnlyBlankLines ==
  /\ pc \in {"cleaned", "done"} =>
       \A before \in {linesOf(input)} :
         \A k \in {blankHead(before)} :
           IF k = Len(before) THEN out1 = <<>>
           ELSE \A after \in {linesOf(out1)} :
                  /\ Len(after) = Len(before) - k
                  /\ \A i \in 1..Len(after) :
                       after[i] = IF blankLine(before[k + i]) THEN <<>> ELSE before[k + i]
  /\ pc = "done" => out2 = out1

\* a text with a blank line of spaces ahead of a line of text and one after it
C27_Witness ==
  /\ pc = "done"
  /\ input = <<" ", "\n", "a", "\n", "\t">>
  /\ out1 = <<"a", "\n">>
  /\ out2 = out1


\* the formatter the run is to use, "" for none: the one -type names if the
\* registry holds it; without -type, docker-compose if it can handle the file, else
\* traefik if it can
expectedFormatter ==
  IF flags.type # ""
  THEN IF flags.type \in Range(formatters) THEN flags.type ELSE ""
  ELSE IF CanHandle(flags.input, input) THEN "docker-compose"
  ELSE IF traefik_CanHandle(flags.input, input) THEN "traefik"
  ELSE ""

\* the run has read its input and is past the selection
SelectionDone == pc \in {"format", "check", "output"} \/ (pc = "exit" /\ input # None)

RECURSIVE sameButOrder(_, _, _)
\* b is a with the pairs of its mappings in some order: every field of every node is
\* the same, every sequence holds the same elements in the same order, every
\* mapping the same pairs; if top is set, the keys of the root mapping may have
\* got a newline ahead of their head comment
sameButOrder(a, b, top) ==
  /\ [a EXCEPT !.Content = <<>>] = [b EXCEPT !.Content = <<>>]
  /\ Len(a.Content) = Len(b.Content)
  /\ IF a.Kind = MappingNode
     THEN \A i \in 1..pairCount(a) :
            \E j \in 1..pairCount(b) :
              /\ keyAt(b, j).Line = keyAt(a, i).Line
              /\ IF top
                 THEN /\ [keyAt(b, j) EXCEPT !.HeadComment = keyAt(a, i).HeadComment]
                           = keyAt(a, i)
                      /\ keyAt(b, j).HeadComment
                           \in {keyAt(a, i).HeadComment, <<"\n">> \o keyAt(a, i).HeadComment}
                 ELSE keyAt(b, j) = keyAt(a, i)
              /\ sameButOrder(valueAt(a, i), valueAt(b, j), FALSE)
     ELSE \A i \in 1..Len(a.Content) :
            sameButOrder(a.Content[i], b.Content[i], top /\ a.Kind = DocumentNode)

\* C29: the traefik walk changes the order of the pairs of mappings and puts a
\* newline ahead of the head comment of keys of the root mapping, and nothing else:
\* kind, tag, style, value and the comments of every node, the pairs of every
\* mapping and the elements of every sequence are as before.
C29_TraefikFrame ==
  (pc = "walked" /\ profile = "traefik") =>
    IF node = None THEN result = None
    ELSE sameButOrder(node, result, TRUE)

\* a document whose services changed places and whose second root key was spaced
C29_Witness ==
  /\ pc = "walked"
  /\ profile = "traefik"
  /\ node # None
  /\ Len(node.Content) = 1
  /\ node.Content[1].Kind = MappingNode
  /\ pairCount(node.Content[1]) = 2
  /\ keyAt(valueAt(node.Content[1], 1), 1).Value = web
  /\ keyAt(valueAt(result.Content[1], 1), 2).Value = web
  /\ keyAt(node.Content[1], 2).HeadComment = <<>>
  /\ keyAt(result.Content[1], 2).HeadComment = <<"\n">>
  /\ \E p \in pathsOf(result) : nearestKey(result, p, <<>>) = ports
                                 /\ nodeAt(result, p).Tag = intTag


\* the head comments of a tree, by place
headsOf(n) == [p \in pathsOf(n) |-> nodeAt(n, p).HeadComment]

\* C30: the spacing steps are idempotent: addServiceSpacing and the top-level
\* spacing loop, applied to a mapping they have already spaced, return it as it is,
\* and a further walk over a walked tree leaves every head comment as the walk
\* before left it, so that none begins with two newlines.
C30_SpacingIdempotent ==
  (pc \in {"walked", "rewalked"}) =>
    /\ \A t \in {node, result} : \A p \in pathsOf(t) :
         nodeAt(t, p).Kind = MappingNode =>
           /\ With(addServiceSpacing(nodeAt(t, p)),
                   LAMBDA s : addServiceSpacing(s) = s)
           /\ With(topLevelSpacing(collectPairs(nodeAt(t, p), FALSE)),
                   LAMBDA s : topLevelSpacing(s) = s)
    /\ \A p \in pathsOf(result) :
         With(nodeAt(result, p).HeadComment,
              LAMBDA h : Len(h) >= 2 => ~(h[1] = "\n" /\ h[2] = "\n"))
    /\ pc = "rewalked" => (pathsOf(doc) = pathsOf(result) /\ headsOf(result) = headsOf(doc))

\* a second walk over a compose tree in which the first walk spaced a commented
\* service and a commented root key
C30_Witness ==
  /\ pc = "rewalked"
  /\ profile = "docker-compose"
  /\ node = spacingDocument(TRUE, TRUE)
  /\ keyAt(node.Content[1], 2).HeadComment = commentText
  /\ keyAt(doc.Content[1], 2).HeadComment = <<"\n">> \o commentText
  /\ keyAt(result.Content[1], 2).HeadComment = <<"\n">> \o commentText
  /\ keyAt(valueAt(result.Content[1], 1), 2).HeadComment = <<"\n">> \o commentText

=============================================================================
